---------------------------- MODULE Spec2Model ----------------------------
(***************************************************************************)
(* A model of narrata: OHLCV frame validation, the analyzers and the       *)
(* narration composer.  Floating-point quantities are modelled as exact    *)
(* integers or rationals; a missing cell (NaN) is the value NaN.           *)
(***************************************************************************)
EXTENDS Integers, Sequences, FiniteSets, TLC

VARIABLES
    rpt,        \* regimes.rpt / symbolic.rpt: the ruptures module is importable
    ta,         \* indicators.ta / patterns.ta: pandas_ta is importable
    talib,      \* ta.Imports["talib"]
    tslearn,    \* symbolic.SymbolicAggregateApproximation is not None
    df,         \* the DataFrame object the caller holds
    last        \* the last call on it: operation, arguments, outcome

vars == <<rpt, ta, talib, tslearn, df, last>>

(***************************************************************************)
(* Bounds of the model.                                                    *)
(***************************************************************************)
MaxRows == 2          \* rows of the frames of the validation specification
MaxStamp == 2         \* timestamps 1..MaxStamp

(***************************************************************************)
(* Python values.                                                          *)
(***************************************************************************)
None == <<>>            \* None; an optional value v that is present is <<v>>
Some(v) == <<v>>
NaN == -1               \* a missing or non-numeric cell of a column
RNaN == [n |-> 0, d |-> 0]   \* float NaN among the rationals

Return(v) == [kind |-> "return", value |-> v]
Raise(exc, msg) == [kind |-> "raise", exc |-> exc, msg |-> msg]

RECURSIVE SeqsUpTo(_, _)
SeqsUpTo(S, n) ==
    IF n = 0 THEN {<<>>}
    ELSE LET shorter == SeqsUpTo(S, n - 1)
         IN  shorter \cup {Append(s, x) : s \in {t \in shorter : Len(t) = n - 1}, x \in S}

Range(s) == {s[i] : i \in DOMAIN s}

(***************************************************************************)
(* The frame: index type, index values, columns with their cells and       *)
(* df.attrs["_narrata_validated"].                                         *)
(***************************************************************************)
REQUIRED_OHLCV_COLUMNS == <<"Open", "High", "Low", "Close", "Volume">>

Frame(isFrame, kind, index, data, validated) ==
    [isDataFrame |-> isFrame, kind |-> kind, index |-> index, data |-> data,
     validated |-> validated]

Columns(f) == DOMAIN f.data

\* pandas: DataFrame.empty, Index.has_duplicates, Index.is_monotonic_increasing
Empty(f) == Len(f.index) = 0 \/ Columns(f) = {}
HasDuplicates(idx) == \E i, j \in DOMAIN idx : i < j /\ idx[i] = idx[j]
IsMonotonicIncreasing(idx) == \A i, j \in DOMAIN idx : i < j => idx[i] <= idx[j]

\* validate_ohlcv_frame(df, required_columns): the outcome and the frame after it
validate_ohlcv_frame_nomarker(f, required) ==
    IF ~f.isDataFrame
    THEN [ret |-> Raise("ValidationError", "Input must be a pandas DataFrame."), df |-> f]
    ELSE IF Empty(f)
    THEN [ret |-> Raise("ValidationError", "Input DataFrame must not be empty."), df |-> f]
    ELSE IF f.kind = "MultiIndex"
    THEN [ret |-> Raise("ValidationError", "MultiIndex input is not supported."), df |-> f]
    ELSE IF f.kind # "DatetimeIndex"
    THEN [ret |-> Raise("ValidationError", "DataFrame index must be a pandas DatetimeIndex."), df |-> f]
    ELSE IF HasDuplicates(f.index)
    THEN [ret |-> Raise("ValidationError", "DataFrame index must not contain duplicate timestamps."), df |-> f]
    ELSE IF ~IsMonotonicIncreasing(f.index)
    THEN [ret |-> Raise("ValidationError", "DataFrame index must be sorted in ascending order."), df |-> f]
    ELSE IF \E i \in DOMAIN required : required[i] \notin Columns(f)
    THEN [ret |-> Raise("ValidationError", "DataFrame is missing required columns"), df |-> f]
    ELSE [ret |-> Return(None), df |-> [f EXCEPT !.validated = TRUE]]

\* a variant of validate_ohlcv_frame that marks a frame whatever its checks said
validate_ohlcv_frame_marks_always(f, required) ==
    IF f.isDataFrame /\ f.validated THEN [ret |-> Return(None), df |-> f]
    ELSE [ret |-> validate_ohlcv_frame_nomarker(f, required).ret,
          df |-> IF f.isDataFrame THEN [f EXCEPT !.validated = TRUE] ELSE f]

validate_ohlcv_frame(f, required) ==
    IF f.isDataFrame /\ f.validated
    THEN [ret |-> Return(None), df |-> f]
    ELSE validate_ohlcv_frame_nomarker(f, required)

(***************************************************************************)
(* The validation specification: a caller constructs a frame, validates it *)
(* any number of times with any required_columns, and changes it in place  *)
(* between the calls (df.attrs survives every in-place change).            *)
(***************************************************************************)
IndexKinds == {"DatetimeIndex", "MultiIndex", "RangeIndex"}
ColumnSets == {{"Open", "High", "Low", "Close", "Volume"},
               {"Open", "High", "Low", "Volume"},
               {"Open", "High", "Low", "Close", "Volume", "AdjClose"},
               {}}
RequiredChoices == {REQUIRED_OHLCV_COLUMNS, <<"Open", "Close">>, <<"Close", "AdjClose">>}

ConstCells(n) == [i \in 1..n |-> 1]

ConstructedFrames ==
    {Frame(TRUE, k, idx, [c \in cs |-> ConstCells(Len(idx))], FALSE) :
        k \in IndexKinds, idx \in SeqsUpTo(1..MaxStamp, MaxRows), cs \in ColumnSets}

NotAFrame == Frame(FALSE, "None", <<>>, <<>>, FALSE)

NoCall == [op |-> "none", required |-> <<>>, ret |-> Return(None)]

InitValidation ==
    /\ rpt \in BOOLEAN /\ ta \in BOOLEAN /\ talib = FALSE /\ tslearn \in BOOLEAN
    /\ df \in ConstructedFrames \cup {NotAFrame}
    /\ last = NoCall

\* validate_ohlcv_frame(df, required_columns=required)
Validate(required) ==
    LET r == validate_ohlcv_frame(df, required)
    IN  /\ df' = r.df
        /\ last' = [op |-> "validate_ohlcv_frame", required |-> required, ret |-> r.ret]
        /\ UNCHANGED <<rpt, ta, talib, tslearn>>

\* df.drop(columns=[c], inplace=True)
DropColumn(c) ==
    /\ df.isDataFrame /\ c \in Columns(df)
    /\ df' = [df EXCEPT !.data = [x \in Columns(df) \ {c} |-> df.data[x]]]
    /\ last' = [op |-> "drop", required |-> <<>>, ret |-> Return(None)]
    /\ UNCHANGED <<rpt, ta, talib, tslearn>>

\* df.index = <new index of the same length>
SetIndex(kind, idx) ==
    /\ df.isDataFrame /\ Len(idx) = Len(df.index)
    /\ <<kind, idx>> # <<df.kind, df.index>>
    /\ df' = [df EXCEPT !.kind = kind, !.index = idx]
    /\ last' = [op |-> "set_index", required |-> <<>>, ret |-> Return(None)]
    /\ UNCHANGED <<rpt, ta, talib, tslearn>>

\* df.drop(index=df.index, inplace=True)
DropRows ==
    /\ df.isDataFrame /\ Len(df.index) > 0
    /\ df' = [df EXCEPT !.index = <<>>, !.data = [x \in Columns(df) |-> <<>>]]
    /\ last' = [op |-> "drop_rows", required |-> <<>>, ret |-> Return(None)]
    /\ UNCHANGED <<rpt, ta, talib, tslearn>>

NextValidation ==
    \/ \E required \in RequiredChoices : Validate(required)
    \/ \E c \in {"Close", "Volume"} : DropColumn(c)
    \/ \E k \in IndexKinds, idx \in SeqsUpTo(1..MaxStamp, MaxRows) : SetIndex(k, idx)
    \/ DropRows

Spec == InitValidation /\ [][NextValidation]_vars

(***************************************************************************)
(* C4: validate_ohlcv_frame raises ValidationError on every call on a      *)
(* frame that is empty, has a MultiIndex or a non-DatetimeIndex, has       *)
(* duplicate or non-ascending timestamps, or lacks a required column, in  *)
(* every reachable state (after earlier validations, in-place changes and *)
(* calls with other required_columns).                                     *)
(***************************************************************************)
InvalidFrame(f, required) ==
    \/ Empty(f)
    \/ f.kind # "DatetimeIndex"
    \/ HasDuplicates(f.index)
    \/ ~IsMonotonicIncreasing(f.index)
    \/ \E i \in DOMAIN required : required[i] \notin Columns(f)

C4_InvalidFrameAlwaysRejected ==
    (last.op = "validate_ohlcv_frame" /\ df.isDataFrame /\ InvalidFrame(df, last.required))
        => (last.ret.kind = "raise" /\ last.ret.exc = "ValidationError")


(***************************************************************************)
(* Text.  A text is a sequence of lines, a line a sequence of tokens       *)
(* separated by blanks, a token a sequence of pieces: a piece is one digit *)
(* or a maximal run of non-digit characters ("RSI(14):" is the token       *)
(* <<"RSI(", "1", "4", "):">>).  Formatted prices and labels are the       *)
(* digit-free piece "*".                                                   *)
(***************************************************************************)
DigitChars == <<"0", "1", "2", "3", "4", "5", "6", "7", "8", "9">>

RECURSIVE Digits(_)
Digits(n) == IF n < 10 THEN <<DigitChars[n + 1]>>
             ELSE Append(Digits(n \div 10), DigitChars[(n % 10) + 1])

Word(s) == <<s>>

RECURSIVE Flatten(_)
Flatten(ss) == IF ss = <<>> THEN <<>> ELSE Head(ss) \o Flatten(Tail(ss))

\* the numeric cells of a column: pd.to_numeric(df[column], errors="coerce").dropna()
NumericValues(f, column) == SelectSeq(f.data[column], LAMBDA x : x # NaN)

\* Series.pct_change().dropna(): the first element and every 0/0 are NaN
PctChangeSize(values) ==
    Cardinality({i \in 1..(Len(values) - 1) : ~(values[i] = 0 /\ values[i + 1] = 0)})

(***************************************************************************)
(* analysis/summary.py and validation/ohlcv.py: the base summary.          *)
(***************************************************************************)
\* infer_frequency_label on a regular daily index; pd.infer_freq refuses
\* an index of fewer than three timestamps with ValueError
infer_frequency_label(index) ==
    IF Len(index) < 2 THEN Return("irregular")
    ELSE IF Len(index) < 3 THEN Raise("ValueError", "Need at least 3 dates to infer frequency")
    ELSE Return("daily")

analyze_summary(f, column) ==
    LET v == validate_ohlcv_frame(f, REQUIRED_OHLCV_COLUMNS)
        series == NumericValues(f, column)
        freq == infer_frequency_label(f.index)
    IN  IF v.ret.kind = "raise" THEN v.ret
        ELSE IF column \notin Columns(f)
        THEN Raise("ValidationError", "Column does not exist in DataFrame.")
        ELSE IF series = <<>>
        THEN Raise("ValidationError", "Column contains no numeric values.")
        ELSE IF freq.kind = "raise" THEN freq
        ELSE Return([column |-> column, points |-> Len(series), frequency |-> freq.value,
                     start_date |-> f.index[1], end_date |-> f.index[Len(f.index)]])

\* describe_summary(summary, include_header=False): the Range and the Change line
describe_summary(summary) ==
    << <<Word("Range:"), Word("*"), Word("Mean:"), Word("*"), Word("Std:"), Word("*")>>,
       <<Word("Start:"), Word("*"), Word("End:"), Word("*"), Word("Change:"), Word("*")>> >>

(***************************************************************************)
(* rendering/sparkline.py                                                  *)
(***************************************************************************)
make_sparkline(values, width) ==
    IF width < 1 THEN Raise("ValueError", "width must be >= 1")
    ELSE Return(<<"sparkline">>)

(***************************************************************************)
(* Exact rationals [n, d] (d > 0, lowest terms) for the floats the         *)
(* analyzers compute.                                                      *)
(***************************************************************************)
Abs(x) == IF x < 0 THEN -x ELSE x
Max(a, b) == IF a >= b THEN a ELSE b
Min(a, b) == IF a <= b THEN a ELSE b

RECURSIVE Gcd(_, _)
Gcd(a, b) == IF b = 0 THEN a ELSE Gcd(b, a % b)

Rat(n, d) ==
    LET g == Gcd(Abs(n), Abs(d))
        s == IF d < 0 THEN -1 ELSE 1
    IN  [n |-> (s * n) \div g, d |-> (s * d) \div g]

RInt(x) == [n |-> x, d |-> 1]
RAdd(a, b) == Rat(a.n * b.d + b.n * a.d, a.d * b.d)
RSub(a, b) == Rat(a.n * b.d - b.n * a.d, a.d * b.d)
RMul(a, b) == Rat(a.n * b.n, a.d * b.d)
RDiv(a, b) == Rat(a.n * b.d, a.d * b.n)
RLe(a, b) == a.n * b.d <= b.n * a.d
RLt(a, b) == a.n * b.d < b.n * a.d
RAbs(a) == [n |-> Abs(a.n), d |-> a.d]
RMax(a, b) == IF RLe(b, a) THEN a ELSE b
RMin(a, b) == IF RLe(a, b) THEN a ELSE b

DropNa(series) == SelectSeq(series, LAMBDA x : x # NaN)

RECURSIVE Sum(_)
Sum(s) ==
    IF Len(s) < 2 THEN (IF s = <<>> THEN 0 ELSE s[1])
    ELSE Sum(SubSeq(s, 1, Len(s) \div 2)) + Sum(SubSeq(s, Len(s) \div 2 + 1, Len(s)))

Last(s) == s[Len(s)]
TailN(s, k) == IF Len(s) <= k THEN s ELSE SubSeq(s, Len(s) - k + 1, Len(s))

\* Series.ewm(alpha=alpha, adjust=False).mean() of a sequence of rationals
RECURSIVE EwmFrom(_, _, _)
EwmFrom(prev, xs, alpha) ==
    IF xs = <<>> THEN <<>>
    ELSE IF Len(xs) = 1
    THEN <<RAdd(RMul(RSub(RInt(1), alpha), prev), RMul(alpha, xs[1]))>>
    ELSE LET half == Len(xs) \div 2
             left == EwmFrom(prev, SubSeq(xs, 1, half), alpha)
         IN  left \o EwmFrom(left[half], SubSeq(xs, half + 1, Len(xs)), alpha)

Ewm(xs, alpha) == IF xs = <<>> THEN <<>> ELSE <<Head(xs)>> \o EwmFrom(Head(xs), Tail(xs), alpha)

(***************************************************************************)
(* analysis/indicators.py: RSI                                             *)
(***************************************************************************)
\* values.diff() without its leading NaN
Diff(values) == [i \in 1..(Len(values) - 1) |-> values[i + 1] - values[i]]

\* the RSI series' last element before the NaN test and the clip: NaN when
\* the average loss is zero
RsiLatest(values, period) ==
    LET delta == Diff(values)
        gains == [i \in DOMAIN delta |-> RInt(Max(delta[i], 0))]
        losses == [i \in DOMAIN delta |-> RInt(Max(-delta[i], 0))]
        alpha == Rat(1, period)
        avg_gain == Last(Ewm(gains, alpha))
        avg_loss == Last(Ewm(losses, alpha))
    IN  IF avg_loss.n = 0 THEN RNaN
        ELSE LET rs == RDiv(avg_gain, avg_loss)
             IN  RSub(RInt(100), RDiv(RInt(100), RAdd(RInt(1), rs)))

RsiClip(latest) == RMax(RInt(0), RMin(RInt(100), latest))

\* a variant of compute_rsi_guard that accepts period samples
compute_rsi_guard_lenient(values, period) == Len(values) < period

\* values.size < period + 1
compute_rsi_guard(values, period) == Len(values) < period + 1

compute_rsi(series, period) ==
    LET values == DropNa(series)
    IN  IF period < 2 THEN Raise("ValidationError", "RSI period must be >= 2.")
        ELSE IF compute_rsi_guard(values, period)
        THEN Raise("ValidationError", "Not enough data to compute RSI.")
        ELSE LET raw == RsiLatest(values, period)
                 latest == IF raw = RNaN THEN RInt(100) ELSE raw
             IN  Return(RsiClip(latest))

\* _compute_rsi_with_pandas_ta: rsi is what ta.rsi(values, length=period)
\* returned: None, or Some series of RSI values in tenths with NaN cells
compute_rsi_with_pandas_ta(values, period, rsi) ==
    IF rsi = None THEN compute_rsi(values, period)
    ELSE LET rsi_numeric == DropNa(rsi[1])
         IN  IF rsi_numeric = <<>> THEN compute_rsi(values, period)
             ELSE Return(Rat(Last(rsi_numeric), 10))

\* _classify_rsi
classify_rsi(values, rsi_value) ==
    IF RLe(RInt(70), rsi_value) THEN "overbought"
    ELSE IF RLe(rsi_value, RInt(30)) THEN "oversold"
    ELSE LET recent == TailN(values, 4)
         IN  IF Len(recent) >= 2 /\ Last(recent) >= Head(recent)
             THEN "neutral-bullish" ELSE "neutral-bearish"

(***************************************************************************)
(* analysis/indicators.py: MACD                                            *)
(***************************************************************************)
RSeq(ints) == [i \in DOMAIN ints |-> RInt(ints[i])]
SpanAlpha(span) == Rat(2, span + 1)

MacdLine(values, fast_period, slow_period) ==
    LET fast_ema == Ewm(RSeq(values), SpanAlpha(fast_period))
        slow_ema == Ewm(RSeq(values), SpanAlpha(slow_period))
    IN  [i \in DOMAIN values |-> RSub(fast_ema[i], slow_ema[i])]

compute_macd(series, fast_period, slow_period, signal_period) ==
    LET values == DropNa(series)
    IN  IF fast_period >= slow_period
        THEN Raise("ValidationError", "fast_period must be smaller than slow_period.")
        ELSE IF Len(values) < slow_period + signal_period
        THEN Raise("ValidationError", "Not enough data to compute MACD.")
        ELSE LET macd_line == MacdLine(values, fast_period, slow_period)
                 signal_line == Ewm(macd_line, SpanAlpha(signal_period))
             IN  Return([macd |-> Last(macd_line), signal |-> Last(signal_line),
                         histogram |-> RSub(Last(macd_line), Last(signal_line))])

RSign(a) == IF a.n > 0 THEN 1 ELSE IF a.n < 0 THEN -1 ELSE 0

\* a variant that takes a zero sample for a sign of its own
MacdFlips_zero_counts(diff) ==
    {i \in 2..Len(diff) : RSign(diff[i]) # RSign(diff[i - 1])}

\* the indices idx >= 2 where the sign of diff flips between two non-zero samples
MacdFlips(diff) ==
    {i \in 2..Len(diff) : /\ RSign(diff[i]) # 0
                          /\ RSign(diff[i - 1]) # 0
                          /\ RSign(diff[i]) # RSign(diff[i - 1])}

SetMax(S) == CHOOSE x \in S : \A y \in S : y <= x

\* _classify_macd_lines: both lines are sequences of rationals with RNaN cells
classify_macd_lines(macd_line, signal_line) ==
    LET n == Min(Len(macd_line), Len(signal_line))
        rows == SelectSeq([i \in 1..n |-> i],
                          LAMBDA i : macd_line[i] # RNaN /\ signal_line[i] # RNaN)
        diff == [k \in DOMAIN rows |-> RSub(macd_line[rows[k]], signal_line[rows[k]])]
    IN  IF rows = <<>> THEN [state |-> <<"neutral">>, crossover_days |-> None]
        ELSE LET direction == IF Last(diff).n >= 0 THEN "bullish" ELSE "bearish"
                 flips == MacdFlips(diff)
                 widening == IF Len(diff) >= 2
                             THEN RLe(RAbs(diff[Len(diff) - 1]), RAbs(Last(diff)))
                             ELSE TRUE
             IN  IF flips # {}
                 THEN [state |-> <<direction>>, crossover_days |-> Some(Len(diff) - SetMax(flips))]
                 ELSE [state |-> <<direction, IF widening THEN "widening" ELSE "narrowing">>,
                       crossover_days |-> None]

\* _classify_macd
classify_macd(values) ==
    LET line == MacdLine(values, 12, 26)
    IN  classify_macd_lines(line, Ewm(line, SpanAlpha(9)))

\* _macd_fallback
macd_fallback(values) ==
    LET result(m, c) ==
            IF m.kind = "raise" THEN m
            ELSE Return([macd |-> m.value.macd, signal |-> m.value.signal,
                         histogram |-> m.value.histogram,
                         state |-> c.state, crossover_days |-> c.crossover_days])
    IN  result(compute_macd(values, 12, 26, 9), classify_macd(values))

\* a backend column in tenths with NaN cells, as rationals
TenthsLine(col) == [i \in DOMAIN col |-> IF col[i] = NaN THEN RNaN ELSE Rat(col[i], 10)]

\* a variant of _compute_macd_with_pandas_ta that classifies the state from
\* the in-house lines
compute_macd_with_pandas_ta_inhouse_state(values, macd_frame) ==
    IF macd_frame = None THEN macd_fallback(values)
    ELSE LET fr == macd_frame[1]
             macd_series == DropNa(fr.macd)
             signal_series == DropNa(fr.signal)
             hist_series == DropNa(fr.hist)
             result(c) == Return([macd |-> Rat(Last(macd_series), 10),
                                  signal |-> Rat(Last(signal_series), 10),
                                  histogram |-> Rat(Last(hist_series), 10),
                                  state |-> c.state, crossover_days |-> c.crossover_days])
         IN  IF \/ Len(fr.macd) = 0 \/ fr.columns = {}
                \/ {"MACD_", "MACDs_", "MACDh_"} \ fr.columns # {}
                \/ macd_series = <<>> \/ signal_series = <<>> \/ hist_series = <<>>
             THEN macd_fallback(values)
             ELSE result(classify_macd(values))

\* _compute_macd_with_pandas_ta: macd_frame is what ta.macd(values, 12, 26, 9)
\* returned: None, or Some frame [columns, macd, signal, hist] whose columns
\* hold tenths with NaN cells
compute_macd_with_pandas_ta(values, macd_frame) ==
    IF macd_frame = None THEN macd_fallback(values)
    ELSE LET fr == macd_frame[1]
             macd_series == DropNa(fr.macd)
             signal_series == DropNa(fr.signal)
             hist_series == DropNa(fr.hist)
             result(c) == Return([macd |-> Rat(Last(macd_series), 10),
                                  signal |-> Rat(Last(signal_series), 10),
                                  histogram |-> Rat(Last(hist_series), 10),
                                  state |-> c.state, crossover_days |-> c.crossover_days])
         IN  IF \/ Len(fr.macd) = 0 \/ fr.columns = {}
                \/ {"MACD_", "MACDs_", "MACDh_"} \ fr.columns # {}
                \/ macd_series = <<>> \/ signal_series = <<>> \/ hist_series = <<>>
             THEN macd_fallback(values)
             ELSE result(classify_macd_lines(TenthsLine(fr.macd), TenthsLine(fr.signal)))

(***************************************************************************)
(* analysis/indicators.py: the optional sub-computations.  Prices and      *)
(* volumes of the model are non-negative integers; the comparisons with a  *)
(* standard deviation are made on the squares.                             *)
(***************************************************************************)
SumSq(s) == Sum([i \in DOMAIN s |-> s[i] * s[i]])

Window(values, t, p) == SubSeq(values, t - p + 1, t)

\* p^2 times the ddof=0 variance of a window of p integers
VarNum(w) == Len(w) * SumSq(w) - Sum(w) * Sum(w)

\* x >= y * sqrt(v) and x <= -y * sqrt(v), for y > 0 and v >= 0
GeSqrt(x, y, v) == x >= 0 /\ x * x >= y * y * v
LeNegSqrt(x, y, v) == x <= 0 /\ x * x >= y * y * v

\* bandwidth (upper - lower) / sma of window i is below that of window j
BandwidthLt(wi, wj) == VarNum(wi) * Sum(wj) * Sum(wj) < VarNum(wj) * Sum(wi) * Sum(wi)

\* compute_bollinger: position and squeeze
BollingerPosition(w, num_std) ==
    LET latest_price == Last(w)
        d == Len(w) * latest_price - Sum(w)     \* p * (latest_price - latest_sma)
        v == VarNum(w)                          \* (p * std)^2
    IN  IF v = 0 \/ num_std = 0 THEN "at midline"
        ELSE IF GeSqrt(10 * d, 9 * num_std, v) THEN "above upper band"       \* pct >= 0.95
        ELSE IF GeSqrt(10 * d, 6 * num_std, v) THEN "near upper band"        \* pct >= 0.80
        ELSE IF LeNegSqrt(10 * d, 9 * num_std, v) THEN "below lower band"    \* pct <= 0.05
        ELSE IF LeNegSqrt(10 * d, 6 * num_std, v) THEN "near lower band"     \* pct <= 0.20
        ELSE IF d > 0 THEN "upper half"
        ELSE "lower half"

\* the windows whose bandwidth is not NaN (a window of zeros has sma = 0, std = 0)
BandwidthWindows(values, period) ==
    SelectSeq([t \in 1..(Len(values) - period + 1) |-> Window(values, t + period - 1, period)],
              LAMBDA w : Sum(w) # 0)

\* recent_bw <= bandwidth.iloc[-period:].quantile(0.20): with linear
\* interpolation this is "at most floor(0.2 * (period - 1)) of the period
\* bandwidths lie strictly below the latest one"
BollingerSqueeze(values, period) ==
    LET bws == BandwidthWindows(values, period)
    IN  IF Len(bws) < period \/ period = 0 THEN FALSE
        ELSE LET look == TailN(bws, period)
                 below == {i \in DOMAIN look : BandwidthLt(look[i], Last(look))}
             IN  Cardinality(below) <= ((period - 1) * 2) \div 10

compute_bollinger(series, period, num_std) ==
    LET values == DropNa(series)
    IN  IF Len(values) < period
        THEN Raise("ValidationError", "Not enough data to compute Bollinger Bands.")
        ELSE Return([position |-> BollingerPosition(TailN(values, period), num_std),
                     squeeze |-> BollingerSqueeze(values, period)])

\* compute_ma_crossover
MaSign(values, t, fast_period, slow_period) ==
    LET x == slow_period * Sum(Window(values, t, fast_period))
             - fast_period * Sum(Window(values, t, slow_period))
    IN  IF x > 0 THEN 1 ELSE IF x < 0 THEN -1 ELSE 0

\* variant: a difference of zero counts as a death cross
compute_ma_crossover_strict(series, fast_period, slow_period) ==
    LET values == DropNa(series)
        first == Max(fast_period, slow_period)
        signs == [k \in 1..(Len(values) - first + 1) |->
                     MaSign(values, k + first - 1, fast_period, slow_period)]
        flips == {i \in 2..Len(signs) : signs[i] # signs[i - 1] /\ signs[i] # 0 /\ signs[i - 1] # 0}
    IN  IF Len(values) < slow_period + 1 THEN Return([cross |-> None, days |-> None])
        ELSE IF Len(signs) < 2 THEN Return([cross |-> None, days |-> None])
        ELSE LET current == IF Last(signs) > 0 THEN "golden cross" ELSE "death cross"
             IN  IF flips # {}
                 THEN Return([cross |-> Some(current), days |-> Some(Len(signs) - SetMax(flips))])
                 ELSE Return([cross |-> Some(current), days |-> None])

compute_ma_crossover(series, fast_period, slow_period) ==
    LET values == DropNa(series)
        first == Max(fast_period, slow_period)
        signs == [k \in 1..(Len(values) - first + 1) |->
                     MaSign(values, k + first - 1, fast_period, slow_period)]
        flips == {i \in 2..Len(signs) : signs[i] # signs[i - 1] /\ signs[i] # 0 /\ signs[i - 1] # 0}
    IN  IF Len(values) < slow_period + 1 THEN Return([cross |-> None, days |-> None])
        ELSE IF Len(signs) < 2 THEN Return([cross |-> None, days |-> None])
        ELSE LET current == IF Last(signs) >= 0 THEN "golden cross" ELSE "death cross"
             IN  IF flips # {}
                 THEN Return([cross |-> Some(current), days |-> Some(Len(signs) - SetMax(flips))])
                 ELSE Return([cross |-> Some(current), days |-> None])

\* round(x, digits) of a non-negative rational, half to even, as a rational
RoundHalfEven(x, scale) ==
    LET num == x.n * scale
        q == num \div x.d
        r2 == 2 * (num % x.d)
    IN  IF r2 < x.d THEN Rat(q, scale)
        ELSE IF r2 > x.d THEN Rat(q + 1, scale)
        ELSE IF q % 2 = 0 THEN Rat(q, scale) ELSE Rat(q + 1, scale)

\* compute_volume_state
compute_volume_state(f, lookback) ==
    IF "Volume" \notin Columns(f)
    THEN Raise("ValidationError", "DataFrame must contain Volume column.")
    ELSE LET volume == NumericValues(f, "Volume")
         IN  IF Len(volume) < lookback + 1
             THEN Raise("ValidationError", "Not enough data to compute volume state.")
             ELSE LET total == Sum(TailN(volume, lookback))      \* lookback * avg
                  IN  IF total <= 0 THEN Return([ratio |-> RInt(1), state |-> "average"])
                      ELSE LET ratio == Rat(Last(volume) * lookback, total)
                               state == IF RLe(RInt(2), ratio) THEN "unusually high"
                                        ELSE IF RLe(Rat(3, 2), ratio) THEN "above average"
                                        ELSE IF RLe(ratio, Rat(1, 2)) THEN "unusually low"
                                        ELSE IF RLe(ratio, Rat(3, 4)) THEN "below average"
                                        ELSE "average"
                           IN  Return([ratio |-> RoundHalfEven(ratio, 100), state |-> state])

\* values.pct_change().dropna() of positive prices
PctChange(values) == [i \in 1..(Len(values) - 1) |-> Rat(values[i + 1] - values[i], values[i])]

RECURSIVE RSum(_)
RSum(s) ==
    IF Len(s) < 2 THEN (IF s = <<>> THEN RInt(0) ELSE s[1])
    ELSE RAdd(RSum(SubSeq(s, 1, Len(s) \div 2)), RSum(SubSeq(s, Len(s) \div 2 + 1, Len(s))))

\* the ddof=0 variance of a window of rationals
RVar(w) ==
    LET mean == RDiv(RSum(w), RInt(Len(w)))
        meansq == RDiv(RSum([i \in DOMAIN w |-> RMul(w[i], w[i])]), RInt(Len(w)))
    IN  RSub(meansq, RMul(mean, mean))

VolatilityState(percentile) ==
    IF percentile <= 10 THEN "extremely low"
    ELSE IF percentile <= 25 THEN "low"
    ELSE IF percentile >= 90 THEN "extremely high"
    ELSE IF percentile >= 75 THEN "high"
    ELSE "moderate"

\* compute_volatility_percentile
compute_volatility_percentile(series, window, lookback) ==
    LET values == DropNa(series)
    IN  IF Len(values) < window + 2
        THEN Raise("ValidationError", "Not enough data to compute volatility percentile.")
        ELSE LET returns == PctChange(values)
                 rolling_vol == [t \in 1..(Len(returns) - window + 1) |->
                                    RVar(Window(returns, t + window - 1, window))]
             IN  IF Len(returns) < window \/ window < 1
                 THEN Raise("ValidationError", "Not enough data to compute volatility percentile.")
                 ELSE LET rank_window == TailN(rolling_vol, Min(lookback, Len(rolling_vol)))
                          le == {i \in DOMAIN rank_window : RLe(rank_window[i], Last(rolling_vol))}
                          percentile == RoundHalfEven(Rat(Cardinality(le) * 100, Len(rank_window)), 1).n
                      IN  Return([percentile |-> percentile, state |-> VolatilityState(percentile)])

(***************************************************************************)
(* analysis/indicators.py: analyze_indicators and describe_indicators.     *)
(* ext is what the optional backend returned during the call: ext.rsi is   *)
(* ta.rsi's result, ext.macd is ta.macd's result.                          *)
(***************************************************************************)
Caught(r) == r.kind = "raise" /\ r.exc = "ValidationError"

\* try: ... except ValidationError: pass, around one optional sub-computation
TryBollinger(values) ==
    LET r == compute_bollinger(values, 20, 2)
    IN  IF Caught(r) THEN [bb_position |-> None, bb_squeeze |-> None]
        ELSE [bb_position |-> Some(r.value.position), bb_squeeze |-> Some(r.value.squeeze)]

TryMaCrossover(values) ==
    LET r == compute_ma_crossover(values, 50, 200)
    IN  IF Caught(r) THEN [ma_cross |-> None, ma_cross_days_ago |-> None]
        ELSE [ma_cross |-> r.value.cross, ma_cross_days_ago |-> r.value.days]

TryVolumeState(f) ==
    LET r == compute_volume_state(f, 20)
    IN  IF Caught(r) THEN [volume_ratio |-> None, volume_state |-> None]
        ELSE [volume_ratio |-> Some(r.value.ratio), volume_state |-> Some(r.value.state)]

\* a variant of TryVolatility inside the try block of the MA crossover
TryVolatilitySharedTry(values) ==
    LET r == compute_volatility_percentile(values, 20, 252)
    IN  IF Caught(r) \/ Len(values) < 201
        THEN [volatility_percentile |-> None, volatility_state |-> None]
        ELSE [volatility_percentile |-> Some(r.value.percentile),
              volatility_state |-> Some(r.value.state)]

TryVolatility(values) ==
    LET r == compute_volatility_percentile(values, 20, 252)
    IN  IF Caught(r) THEN [volatility_percentile |-> None, volatility_state |-> None]
        ELSE [volatility_percentile |-> Some(r.value.percentile),
              volatility_state |-> Some(r.value.state)]

\* the RSI and MACD of analyze_indicators: in-house when ta is None
PrimaryRsi(values, rsi_period, ext) ==
    IF ~ta THEN compute_rsi(values, rsi_period)
    ELSE compute_rsi_with_pandas_ta(values, rsi_period, ext.rsi)

PrimaryMacd(values, ext) ==
    IF ~ta THEN macd_fallback(values)
    ELSE compute_macd_with_pandas_ta(values, ext.macd)

\* the in-house functions analyze_indicators calls for RSI and MACD, directly
\* (indicators.py:238-241) or as the fallback of a backend helper
\* (indicators.py:388-393, 407-421): compute_rsi first, then compute_macd,
\* then _classify_macd, up to the first that raises
InhouseInvoked(values, rsi_period, ext) ==
    LET rsi_inhouse == \/ ~ta
                       \/ ext.rsi = None
                       \/ DropNa(ext.rsi[1]) = <<>>
        macd_inhouse == \/ ~ta
                        \/ ext.macd = None
                        \/ Len(ext.macd[1].macd) = 0 \/ ext.macd[1].columns = {}
                        \/ {"MACD_", "MACDs_", "MACDh_"} \ ext.macd[1].columns # {}
                        \/ DropNa(ext.macd[1].macd) = <<>>
                        \/ DropNa(ext.macd[1].signal) = <<>>
                        \/ DropNa(ext.macd[1].hist) = <<>>
        rsi_raises == rsi_inhouse /\ compute_rsi(values, rsi_period).kind = "raise"
        macd_raises == compute_macd(values, 12, 26, 9).kind = "raise"
    IN  (IF rsi_inhouse THEN {"compute_rsi"} ELSE {})
        \cup (IF rsi_raises \/ ~macd_inhouse THEN {}
              ELSE IF macd_raises THEN {"compute_macd"}
              ELSE {"compute_macd", "_classify_macd"})

analyze_indicators(f, column, rsi_period, ext) ==
    LET v == validate_ohlcv_frame(f, REQUIRED_OHLCV_COLUMNS)
    IN  IF v.ret.kind = "raise" THEN v.ret
        ELSE IF column \notin Columns(f)
        THEN Raise("ValidationError", "Column does not exist in DataFrame.")
        ELSE LET values == NumericValues(f, column)
                 stats(rsi, macd, bb, ma, vs, vp) ==
                     IF rsi.kind = "raise" THEN rsi
                     ELSE IF macd.kind = "raise" THEN macd
                     ELSE Return([rsi_period |-> rsi_period,
                                  rsi_value |-> rsi.value,
                                  rsi_state |-> classify_rsi(values, rsi.value),
                                  macd_value |-> macd.value.macd,
                                  macd_signal |-> macd.value.signal,
                                  macd_histogram |-> macd.value.histogram,
                                  macd_state |-> macd.value.state,
                                  crossover_days_ago |-> macd.value.crossover_days,
                                  bb_position |-> bb.bb_position,
                                  bb_squeeze |-> bb.bb_squeeze,
                                  ma_cross |-> ma.ma_cross,
                                  ma_cross_days_ago |-> ma.ma_cross_days_ago,
                                  volume_ratio |-> vs.volume_ratio,
                                  volume_state |-> vs.volume_state,
                                  volatility_percentile |-> vp.volatility_percentile,
                                  volatility_state |-> vp.volatility_state])
             IN  stats(PrimaryRsi(values, rsi_period, ext), PrimaryMacd(values, ext),
                       TryBollinger(values), TryMaCrossover(values), TryVolumeState(f),
                       TryVolatility(values))

\* f"{x:.1f}" of a non-negative rational: the pieces of the token
FormatFixed1(x) ==
    LET r == RoundHalfEven(x, 10)
        tenths == (r.n * 10) \div r.d
    IN  Digits(tenths \div 10) \o <<".">> \o Digits(tenths % 10)

\* repr of a float that was rounded to two decimals
FormatRepr2(x) ==
    LET h == (x.n * 100) \div x.d
        frac == h % 100
    IN  Digits(h \div 100) \o <<".">> \o
        (IF frac % 10 = 0 THEN Digits(frac \div 10)
         ELSE Digits(frac \div 10) \o Digits(frac % 10))

\* _format_ordinal
format_ordinal(number) ==
    LET remainder_100 == number % 100
        suffix == IF 11 <= remainder_100 /\ remainder_100 <= 13 THEN "th"
                  ELSE IF number % 10 = 1 THEN "st"
                  ELSE IF number % 10 = 2 THEN "nd"
                  ELSE IF number % 10 = 3 THEN "rd"
                  ELSE "th"
    IN  Digits(number) \o <<suffix>>

DaysAgo(days) ==
    <<Digits(days), Word(IF days = 1 THEN "day" ELSE "days"), Word("ago")>>

MacdStateTokens(state) ==
    IF Len(state) = 1 THEN <<Word(state[1])>>
    ELSE <<<<state[1], ",">>, Word(state[2])>>

\* describe_indicators: the lines of the rendered text
describe_indicators(stats) ==
    LET rsi_part == << <<"RSI(">> \o Digits(stats.rsi_period) \o <<"):">>,
                       FormatFixed1(stats.rsi_value),
                       <<"(", stats.rsi_state, ")">> >>
        macd_part == <<Word("MACD:")>> \o MacdStateTokens(stats.macd_state) \o
                     (IF stats.crossover_days_ago = None THEN <<>>
                      ELSE <<Word("crossover")>> \o DaysAgo(stats.crossover_days_ago[1]))
        bb == IF stats.bb_position = None THEN <<>>
              ELSE << <<Word("BB:"), Word(stats.bb_position[1])>> \o
                      (IF stats.bb_squeeze = Some(TRUE) THEN <<Word("(squeeze)")>> ELSE <<>>) >>
        ma == IF stats.ma_cross = None THEN <<>>
              ELSE << <<Word("SMA"), <<"5", "0", "/", "2", "0", "0", ":">>, Word(stats.ma_cross[1])>> \o
                      (IF stats.ma_cross_days_ago = None THEN <<>>
                       ELSE DaysAgo(stats.ma_cross_days_ago[1])) >>
        vol == IF stats.volume_ratio = None \/ stats.volume_state = None THEN <<>>
               ELSE << <<Word("Volume:"), FormatRepr2(stats.volume_ratio[1]) \o <<"x">>,
                         <<"2", "0", "-day">>, Word("avg"),
                         <<"(", stats.volume_state[1], ")">> >> >>
        vp == IF stats.volatility_percentile = None \/ stats.volatility_state = None THEN <<>>
              ELSE << <<Word("Volatility:"), format_ordinal(stats.volatility_percentile[1]),
                        Word("percentile"), <<"(", stats.volatility_state[1], ")">> >> >>
    IN  <<rsi_part \o macd_part>> \o bb \o ma \o vol \o vp

(***************************************************************************)
(* analysis/symbolic.py: SAX.  The breakpoints NormalDist().inv_cdf(i/a)   *)
(* are held in hundredths for the alphabet sizes the model uses.           *)
(***************************************************************************)
Letters == <<"a", "b", "c", "d", "e", "f", "g", "h", "i", "j", "k", "l", "m",
             "n", "o", "p", "q", "r", "s", "t", "u", "v", "w", "x", "y", "z">>

\* chr(ord("a") + index): outside 0..25 the character is no lowercase letter
Chr(index) == IF index >= 0 /\ index < 26 THEN Letters[index + 1] ELSE "?"

gaussian_breakpoints(alphabet_size) ==
    CASE alphabet_size = 2 -> <<0>>
      [] alphabet_size = 3 -> <<-43, 43>>
      [] alphabet_size = 4 -> <<-67, 0, 67>>
      [] alphabet_size = 5 -> <<-84, -25, 25, 84>>
      [] alphabet_size = 8 -> <<-115, -67, -32, 0, 32, 67, 115>>
      [] alphabet_size = 26 -> <<-177, -143, -120, -102, -87, -74, -62, -50, -40, -29, -19,
                                 -10, 0, 10, 19, 29, 40, 50, 62, 74, 87, 102, 120, 143, 177>>

\* np.array_split(values, segments): the first len % segments chunks hold one more
ArraySplit(values, segments) ==
    LET n == Len(values)
        small == n \div segments
        extra == n % segments
        start(k) == (k - 1) * small + Min(k - 1, extra) + 1
        size(k) == small + (IF k <= extra THEN 1 ELSE 0)
    IN  [k \in 1..segments |-> SubSeq(values, start(k), start(k) + size(k) - 1)]

\* breakpoint b (hundredths) <= mean of the chunk of the z-normalized series:
\* b/100 * std <= chunk mean - mean, with (n * std)^2 = VarNum(values)
BreakpointLe(b, chunk, values) ==
    LET v == VarNum(values)
        x == Len(values) * Sum(chunk) - Len(chunk) * Sum(values)
        y == Abs(b) * Len(chunk)
    IN  IF v = 0 THEN b <= 0                   \* _z_normalize: all zeros
        ELSE IF b >= 0 THEN x >= 0 /\ (100 * x) * (100 * x) >= y * y * v
        ELSE x >= 0 \/ (100 * x) * (100 * x) <= y * y * v

\* a variant of SaxIndex that counts the breakpoints from 1
SaxIndexOffByOne(chunk, values, breakpoints) ==
    1 + Cardinality({i \in DOMAIN breakpoints : BreakpointLe(breakpoints[i], chunk, values)})

\* np.searchsorted(breakpoints, paa, side="right") for one PAA value
SaxIndex(chunk, values, breakpoints) ==
    Cardinality({i \in DOMAIN breakpoints : BreakpointLe(breakpoints[i], chunk, values)})

\* _sax_encode_inhouse
sax_encode_inhouse(values, word_size, alphabet_size) ==
    LET chunks == ArraySplit(values, word_size)
        breakpoints == gaussian_breakpoints(alphabet_size)
    IN  [k \in 1..Len(chunks) |-> Chr(SaxIndex(chunks[k], values, breakpoints))]

\* _sax_encode_with_tslearn: transformed is what model.fit_transform returned
sax_encode_with_tslearn(transformed) ==
    [k \in DOMAIN transformed |-> Chr(transformed[k])]

\* the checks of sax_encode before it encodes
sax_encode_guard(f, column, word_size, alphabet_size) ==
    LET v == validate_ohlcv_frame(f, REQUIRED_OHLCV_COLUMNS)
    IN  IF v.ret.kind = "raise" THEN v.ret
        ELSE IF column \notin Columns(f)
        THEN Raise("ValidationError", "Column does not exist in DataFrame.")
        ELSE IF word_size < 2 THEN Raise("ValidationError", "word_size must be >= 2.")
        ELSE IF alphabet_size < 2 \/ alphabet_size > 26
        THEN Raise("ValidationError", "alphabet_size must be between 2 and 26.")
        ELSE IF Len(NumericValues(f, column)) < word_size
        THEN Raise("ValidationError", "Not enough data points for requested word_size.")
        ELSE Return(IF tslearn THEN "tslearn" ELSE "inhouse")

sax_encode(f, column, word_size, alphabet_size, transformed) ==
    LET g == sax_encode_guard(f, column, word_size, alphabet_size)
        values == NumericValues(f, column)
        symbols == IF tslearn THEN sax_encode_with_tslearn(transformed)
                   ELSE sax_encode_inhouse(values, word_size, alphabet_size)
    IN  IF g.kind = "raise" THEN g
        ELSE Return([method |-> "SAX", word_size |-> word_size,
                     alphabet_size |-> alphabet_size, symbols |-> symbols])

\* describe_sax
describe_sax(stats) ==
    << << <<"SAX(">> \o Digits(stats.word_size) \o <<"):">>, stats.symbols >> >>

(***************************************************************************)
(* analysis/symbolic.py: ASTRIDE.  bkpts is what ruptures' Pelt.predict   *)
(* returned: increasing breakpoints, the last one the length of the series.*)
(***************************************************************************)
RECURSIVE RInsert(_, _)
RInsert(x, sorted) ==
    IF sorted = <<>> THEN <<x>>
    ELSE IF RLe(x, Head(sorted)) THEN <<x>> \o sorted
    ELSE <<Head(sorted)>> \o RInsert(x, Tail(sorted))

RECURSIVE RSort(_)
RSort(s) == IF s = <<>> THEN <<>> ELSE RInsert(Head(s), RSort(Tail(s)))

\* np.quantile(xs, num / den) with linear interpolation
RQuantile(xs, num, den) ==
    LET sorted == RSort(xs)
        pos == (Len(xs) - 1) * num
        lo == pos \div den
        frac == Rat(pos % den, den)
    IN  IF lo + 1 >= Len(xs) THEN sorted[Len(xs)]
        ELSE RAdd(sorted[lo + 1], RMul(frac, RSub(sorted[lo + 2], sorted[lo + 1])))

\* _astride_encode_core on the series: the quantile bins of the segment means
\* do not change with the z-normalization (a positive affine map; a constant
\* series is normalized to zeros)
astride_encode_core(values, alphabet_size, bkpts) ==
    LET starts == <<0>> \o SubSeq(bkpts, 1, Len(bkpts) - 1)
        flat == VarNum(values) = 0
        segment_means == [k \in DOMAIN bkpts |->
                            IF flat THEN RInt(0)
                            ELSE Rat(Sum(SubSeq(values, starts[k] + 1, bkpts[k])),
                                     bkpts[k] - starts[k])]
        bins == [i \in 1..(alphabet_size - 1) |-> RQuantile(segment_means, i, alphabet_size)]
        index(m) == Cardinality({i \in DOMAIN bins : RLe(bins[i], m)})
    IN  IF Len(segment_means) < 2 THEN [k \in 1..Max(1, Len(segment_means)) |-> "a"]
        ELSE [k \in DOMAIN segment_means |-> Chr(Min(index(segment_means[k]), alphabet_size - 1))]

\* a variant of astride_encode without its check of rpt, encoding in-house
astride_encode_fallback(f, column, n_segments, alphabet_size, bkpts) ==
    LET v == validate_ohlcv_frame(f, REQUIRED_OHLCV_COLUMNS)
    IN  IF v.ret.kind = "raise" THEN v.ret
        ELSE IF column \notin Columns(f)
        THEN Raise("ValidationError", "Column does not exist in DataFrame.")
        ELSE IF Len(NumericValues(f, column)) < n_segments
        THEN Raise("ValidationError", "Not enough data points for requested n_segments.")
        ELSE Return([method |-> "SAX", word_size |-> n_segments,
                     alphabet_size |-> alphabet_size,
                     symbols |-> sax_encode_inhouse(NumericValues(f, column), n_segments,
                                                    Max(2, Min(alphabet_size, 5)))])

astride_encode(f, column, n_segments, alphabet_size, bkpts) ==
    LET v == validate_ohlcv_frame(f, REQUIRED_OHLCV_COLUMNS)
    IN  IF v.ret.kind = "raise" THEN v.ret
        ELSE IF column \notin Columns(f)
        THEN Raise("ValidationError", "Column does not exist in DataFrame.")
        ELSE IF n_segments < 2 THEN Raise("ValidationError", "n_segments must be >= 2.")
        ELSE IF alphabet_size < 2 \/ alphabet_size > 26
        THEN Raise("ValidationError", "alphabet_size must be between 2 and 26.")
        ELSE IF ~rpt
        THEN Raise("ValidationError", "ASTRIDE encoding requires the 'ruptures' package. Install with: pip install narrata[symbolic]")
        ELSE IF Len(NumericValues(f, column)) < n_segments
        THEN Raise("ValidationError", "Not enough data points for requested n_segments.")
        ELSE LET symbols == astride_encode_core(NumericValues(f, column), alphabet_size, bkpts)
             IN  Return([method |-> "ASTRIDE", word_size |-> Len(symbols),
                         alphabet_size |-> alphabet_size, symbols |-> symbols])

(***************************************************************************)
(* The symbolic specification: a caller holds a valid OHLCV frame and      *)
(* requests SAX and ASTRIDE encodings of it.  A request ends before the    *)
(* next one starts: no analysis value outlives its request.                *)
(***************************************************************************)
MaxSymRows == 3       \* rows of the frames of the symbolic specification
MaxWord == 3          \* word_size and n_segments range over 1..MaxWord

SymCells == {NaN, 1, 3}
AlphabetChoices == {1, 2, 3, 4, 26, 27}

\* a frame whose price columns all hold the cells given, on the dates 1..n
OhlcvFrame(cells) ==
    Frame(TRUE, "DatetimeIndex", [i \in DOMAIN cells |-> i],
          [c \in Range(REQUIRED_OHLCV_COLUMNS) |-> cells], FALSE)

\* what SymbolicAggregateApproximation.fit_transform may return: word_size
\* indices below alphabet_size (of a large alphabet the model takes three)
TslearnIndices(alphabet_size) ==
    IF alphabet_size <= 3 THEN 0..(alphabet_size - 1)
    ELSE {0, alphabet_size \div 2, alphabet_size - 1}

TslearnOutputs(f, column, word_size, alphabet_size) ==
    IF tslearn /\ sax_encode_guard(f, column, word_size, alphabet_size).kind = "return"
    THEN [1..word_size -> TslearnIndices(alphabet_size)]
    ELSE {<<>>}

RECURSIVE SortedSeq(_)
SortedSeq(S) ==
    IF S = {} THEN <<>>
    ELSE LET m == CHOOSE x \in S : \A y \in S : x <= y
         IN  <<m>> \o SortedSeq(S \ {m})

\* what Pelt(min_size=...).predict may return on n samples: increasing
\* breakpoints, no segment shorter than min_size, the last breakpoint n
PeltOutputs(n, n_segments) ==
    LET min_size == Max(2, n \div (n_segments * 2))
        starts(b) == <<0>> \o SubSeq(b, 1, Len(b) - 1)
        all == {SortedSeq(B \cup {n}) : B \in SUBSET (1..(n - 1))}
    IN  IF ~rpt \/ n < 1 \/ n_segments < 1 THEN {<<>>}
        ELSE {b \in all : \A k \in DOMAIN b : b[k] - starts(b)[k] >= min_size \/ Len(b) = 1}

InitSymbolic ==
    /\ rpt \in BOOLEAN /\ tslearn \in BOOLEAN /\ ta = FALSE /\ talib = FALSE
    /\ df \in {OhlcvFrame(cells) : cells \in SeqsUpTo(SymCells, MaxSymRows) \ {<<>>}}
    /\ last = NoCall

\* sax_encode(df, column, word_size, alphabet_size)
SaxEncode(column, word_size, alphabet_size, transformed) ==
    /\ last.op = "none"
    /\ df' = validate_ohlcv_frame(df, REQUIRED_OHLCV_COLUMNS).df
    /\ last' = [op |-> "sax_encode", column |-> column, word_size |-> word_size,
                alphabet_size |-> alphabet_size,
                ret |-> sax_encode(df, column, word_size, alphabet_size, transformed)]
    /\ UNCHANGED <<rpt, ta, talib, tslearn>>

\* astride_encode(df, column, n_segments, alphabet_size)
AstrideEncode(column, n_segments, alphabet_size, bkpts) ==
    /\ last.op = "none"
    /\ df' = validate_ohlcv_frame(df, REQUIRED_OHLCV_COLUMNS).df
    /\ last' = [op |-> "astride_encode", column |-> column, word_size |-> n_segments,
                alphabet_size |-> alphabet_size,
                ret |-> astride_encode(df, column, n_segments, alphabet_size, bkpts)]
    /\ UNCHANGED <<rpt, ta, talib, tslearn>>

\* the request is over and its result dropped
Finish ==
    /\ last.op # "none"
    /\ last' = NoCall
    /\ UNCHANGED <<rpt, ta, talib, tslearn, df>>

NextSymbolic ==
    \/ \E column \in {"Close", "AdjClose"}, w \in 1..MaxWord, a \in AlphabetChoices :
         \E transformed \in TslearnOutputs(df, column, w, a) : SaxEncode(column, w, a, transformed)
    \/ \E column \in {"Close", "AdjClose"}, w \in 1..MaxWord, a \in AlphabetChoices :
         \E bkpts \in PeltOutputs(Len(NumericValues(df, "Close")), w) :
            AstrideEncode(column, w, a, bkpts)
    \/ Finish

SpecSymbolic == InitSymbolic /\ [][NextSymbolic]_vars

\* the call named has returned or raised with arguments the claims call valid
SymbolicCallOk(op) ==
    /\ last.op = op /\ last.column = "Close"
    /\ last.word_size >= 2 /\ last.alphabet_size \in 2..26
    /\ Len(NumericValues(df, "Close")) >= last.word_size

LetterOffset(ch) == CHOOSE i \in 0..25 : Letters[i + 1] = ch

C6_SaxWordShape ==
    SymbolicCallOk("sax_encode")
        => /\ last.ret.kind = "return"
           /\ Len(last.ret.value.symbols) = last.word_size
           /\ last.ret.value.word_size = Len(last.ret.value.symbols)
           /\ \A k \in DOMAIN last.ret.value.symbols :
                /\ last.ret.value.symbols[k] \in Range(Letters)
                /\ LetterOffset(last.ret.value.symbols[k]) < last.alphabet_size

\* the in-house path has produced the last letter of a 2-letter alphabet and
\* both letters of a word
C6_Witness ==
    /\ SymbolicCallOk("sax_encode") /\ ~tslearn
    /\ last.alphabet_size = 2 /\ last.word_size = 3
    /\ last.ret.kind = "return"
    /\ Range(last.ret.value.symbols) = {"a", "b"}


(***************************************************************************)
(* analysis/support_resistance.py.  A price is a cell: an integer or Inf   *)
(* (float +inf, which pd.to_numeric and dropna keep); a level price is a   *)
(* rational or RInf.  Inf is above every finite cell of the model.  The    *)
(* finite cells count in units of 1e305: Huge is the price 1e308 and        *)
(* DoubleMax the largest finite float (1.797e308), above which a sum of    *)
(* floats is +inf.                                                         *)
(***************************************************************************)
Inf == 1000000
Huge == 1000
DoubleMax == 1797
RInf == [n |-> 1, d |-> 0]
Tiny == Rat(1, 1000000)       \* 1e-9: below every nonzero difference of the model

\* abs(value - level) <= tolerance in float arithmetic: inf - inf is nan
Near(value, level, tolerance) ==
    IF value = Inf /\ level = RInf THEN FALSE
    ELSE IF value = Inf \/ level = RInf THEN tolerance = RInf
    ELSE tolerance = RInf \/ RLe(RAbs(RSub(RInt(value), level)), tolerance)

\* float(np.mean(cluster)): the sum of the floats over the count
ClusterMean(cluster) ==
    IF Inf \in Range(cluster) \/ Sum(cluster) > DoubleMax THEN RInf
    ELSE Rat(Sum(cluster), Len(cluster))

\* sorted(values, reverse=reverse)
RECURSIVE SortedValues(_, _)
SortedValues(values, reverse) ==
    IF values = <<>> THEN <<>>
    ELSE LET rest == SortedValues(Tail(values), reverse)
             x == Head(values)
             before(y) == IF reverse THEN y >= x ELSE y <= x
             k == Cardinality({i \in DOMAIN rest : before(rest[i])})
         IN  SubSeq(rest, 1, k) \o <<x>> \o SubSeq(rest, k + 1, Len(rest))

\* _cluster_values: each value joins the first cluster whose mean is near it
RECURSIVE ClusterInto(_, _, _)
ClusterInto(clusters, ordered, tolerance) ==
    IF ordered = <<>> THEN clusters
    ELSE LET value == Head(ordered)
             hits == {i \in DOMAIN clusters : Near(value, ClusterMean(clusters[i]), tolerance)}
             first == CHOOSE i \in hits : \A j \in hits : i <= j
         IN  IF hits = {}
             THEN ClusterInto(Append(clusters, <<value>>), Tail(ordered), tolerance)
             ELSE ClusterInto([clusters EXCEPT ![first] = Append(@, value)],
                              Tail(ordered), tolerance)

cluster_values(values, tolerance, reverse) ==
    ClusterInto(<<>>, SortedValues(values, reverse), tolerance)

\* levels.sort(key=(touches, price) or (touches, -price), reverse=True): stable
\* variant: one tie order for both sides
LevelBeforeLowerFirst(a, b, reverse) ==
    \/ a.touches > b.touches
    \/ a.touches = b.touches /\ a.price # b.price /\ RLe(a.price, b.price)

\* variant: the sort ascends in touch count
LevelBeforeAscending(a, b, reverse) ==
    \/ a.touches < b.touches
    \/ a.touches = b.touches /\ a.price # b.price
       /\ (IF reverse THEN RLe(b.price, a.price) ELSE RLe(a.price, b.price))

LevelBefore(a, b, reverse) ==
    \/ a.touches > b.touches
    \/ a.touches = b.touches /\ a.price # b.price
       /\ (IF reverse THEN RLe(b.price, a.price) ELSE RLe(a.price, b.price))

RECURSIVE SortLevels(_, _)
SortLevels(levels, reverse) ==
    IF levels = <<>> THEN <<>>
    ELSE LET rest == SortLevels(Tail(levels), reverse)
             x == Head(levels)
             k == Cardinality({i \in DOMAIN rest : LevelBefore(rest[i], x, reverse)})
         IN  SubSeq(rest, 1, k) \o <<x>> \o SubSeq(rest, k + 1, Len(rest))

\* levels[:max_levels]
Truncate(levels, max_levels) == SubSeq(levels, 1, Min(Len(levels), max_levels))

Touches(values, level, tolerance) ==
    Cardinality({i \in DOMAIN values : Near(values[i], level, tolerance)})

\* a variant of _build_levels that counts the touching extrema only
build_levels_extrema_touches(candidate_values, extrema_values, all_prices, tolerance, max_levels, reverse) ==
    LET clusters == cluster_values(candidate_values, tolerance, reverse)
        level(cluster) ==
            LET level_price == ClusterMean(cluster)
            IN  [price |-> level_price,
                 touches |-> Touches(extrema_values, level_price, tolerance)]
        levels == [k \in DOMAIN clusters |-> level(clusters[k])]
    IN  IF candidate_values = <<>> THEN <<>>
        ELSE Truncate(SortLevels(levels, reverse), max_levels)

\* _build_levels
build_levels(candidate_values, extrema_values, all_prices, tolerance, max_levels, reverse) ==
    LET clusters == cluster_values(candidate_values, tolerance, reverse)
        level(cluster) ==
            LET level_price == ClusterMean(cluster)
            IN  [price |-> level_price,
                 touches |-> Max(Touches(extrema_values, level_price, tolerance),
                                 Touches(all_prices, level_price, tolerance))]
        levels == [k \in DOMAIN clusters |-> level(clusters[k])]
    IN  IF candidate_values = <<>> THEN <<>>
        ELSE Truncate(SortLevels(levels, reverse), max_levels)

\* scipy.signal.argrelextrema(prices, comparator, order=order), mode="clip"
ArgRelExtrema(prices, lessEqual, order) ==
    LET n == Len(prices)
        cmp(a, b) == IF lessEqual THEN a <= b ELSE a >= b
    IN  SelectSeq([i \in 1..n |-> i],
                  LAMBDA i : \A s \in 1..order :
                      /\ cmp(prices[i], prices[Min(i + s, n)])
                      /\ cmp(prices[i], prices[Max(i - s, 1)]))

\* the checks of find_support_resistance before it looks for extrema
find_support_resistance_guard(f, column, tolerance_ratio, max_levels, extrema_order) ==
    LET v == validate_ohlcv_frame(f, REQUIRED_OHLCV_COLUMNS)
    IN  IF v.ret.kind = "raise" THEN v.ret
        ELSE IF column \notin Columns(f)
        THEN Raise("ValidationError", "Column does not exist in DataFrame.")
        ELSE IF tolerance_ratio.n <= 0 THEN Raise("ValidationError", "tolerance_ratio must be > 0.")
        ELSE IF max_levels < 1 THEN Raise("ValidationError", "max_levels must be >= 1.")
        ELSE IF extrema_order < 1 THEN Raise("ValidationError", "extrema_order must be >= 1.")
        ELSE IF Len(NumericValues(f, column)) < extrema_order * 2 + 3
        THEN Raise("ValidationError", "Not enough data to find support/resistance.")
        ELSE Return(None)

find_support_resistance(f, column, tolerance_ratio, max_levels, extrema_order) ==
    LET g == find_support_resistance_guard(f, column, tolerance_ratio, max_levels, extrema_order)
        prices == NumericValues(f, column)
        minima == ArgRelExtrema(prices, TRUE, extrema_order)
        maxima == ArgRelExtrema(prices, FALSE, extrema_order)
        current_price == Last(prices)
        tolerance == IF current_price = Inf THEN RInf
                     ELSE RMax(RMul(RInt(current_price), tolerance_ratio), Tiny)
        at(indices) == [k \in DOMAIN indices |-> prices[indices[k]]]
        support_values == SelectSeq(at(minima), LAMBDA p : p <= current_price)
        resistance_values == SelectSeq(at(maxima), LAMBDA p : p >= current_price)
    IN  IF g.kind = "raise" THEN g
        ELSE Return([supports |-> build_levels(support_values, at(minima), prices,
                                               tolerance, max_levels, TRUE),
                     resistances |-> build_levels(resistance_values, at(maxima), prices,
                                                  tolerance, max_levels, FALSE)])

(***************************************************************************)
(* The levels specification: a caller holds a valid OHLCV frame and        *)
(* requests its support and resistance levels.                             *)
(***************************************************************************)
MaxLevelRows == 5     \* rows of the frames of the levels specification
MaxLevels == 2        \* max_levels ranges over 0..MaxLevels

LevelCells == {1, 2, 3, Inf}
ToleranceRatios == {Rat(0, 1), Rat(1, 100), Rat(1, 2)}

InitLevels ==
    /\ rpt = FALSE /\ ta = FALSE /\ talib = FALSE /\ tslearn = FALSE
    /\ df \in {OhlcvFrame(cells) : cells \in SeqsUpTo(LevelCells, MaxLevelRows) \ {<<>>}}
              \cup {OhlcvFrame(cells) : cells \in SeqsUpTo({3, Huge}, MaxLevelRows) \ {<<>>}}
    /\ last = NoCall

\* find_support_resistance(df, column, tolerance_ratio, max_levels, extrema_order)
FindSupportResistance(column, tolerance_ratio, max_levels, extrema_order) ==
    /\ last.op = "none"
    /\ df' = validate_ohlcv_frame(df, REQUIRED_OHLCV_COLUMNS).df
    /\ last' = [op |-> "find_support_resistance", column |-> column,
                tolerance_ratio |-> tolerance_ratio, max_levels |-> max_levels,
                extrema_order |-> extrema_order,
                ret |-> find_support_resistance(df, column, tolerance_ratio, max_levels,
                                                extrema_order)]
    /\ UNCHANGED <<rpt, ta, talib, tslearn>>

NextLevels ==
    \/ \E column \in {"Close", "AdjClose"}, ratio \in ToleranceRatios,
          max_levels \in 0..MaxLevels, order \in 0..2 :
         FindSupportResistance(column, ratio, max_levels, order)
    \/ Finish

SpecLevels == InitLevels /\ [][NextLevels]_vars

LevelsReturned == last.op = "find_support_resistance" /\ last.ret.kind = "return"

LevelsBounded(stats, max_levels) ==
    /\ Len(stats.supports) <= max_levels
    /\ Len(stats.resistances) <= max_levels
    /\ \A k \in DOMAIN stats.supports : stats.supports[k].touches >= 1
    /\ \A k \in DOMAIN stats.resistances : stats.resistances[k].touches >= 1

(***************************************************************************)
(* C7: for every price series find_support_resistance accepts and every    *)
(* max_levels >= 1, the result has at most max_levels supports and at most *)
(* max_levels resistances, and every returned level has a touch count of   *)
(* at least 1.                                                             *)
(***************************************************************************)
C7_LevelsBoundedAndTouched ==
    LevelsReturned => LevelsBounded(last.ret.value, last.max_levels)

\* the same for the series whose prices are all finite and far from the
\* largest float
LevelsOfFinitePrices ==
    (LevelsReturned /\ Range(df.data["Close"]) \cap {Inf, Huge} = {})
        => LevelsBounded(last.ret.value, last.max_levels)

\* a finite series has given more clusters than max_levels, one of several values
LevelsOfFinitePricesReached ==
    /\ LevelsReturned /\ Range(df.data["Close"]) \cap {Inf, Huge} = {}
    /\ last.max_levels = 1
    /\ Len(last.ret.value.resistances) = 1
    /\ last.ret.value.resistances[1].price.d = 2

(***************************************************************************)
(* The indicators specification: a caller holds a valid OHLCV frame and    *)
(* requests compute_rsi on its Close column and analyze_indicators.  The   *)
(* frames are short ones of any cells and long ones that are flat up to    *)
(* their last bar, with or without a numeric Volume.                       *)
(***************************************************************************)
MaxIndRows == 4       \* rows of the short frames of the indicators specification
MaxPeriod == 3        \* compute_rsi's period ranges over 1..MaxPeriod

IndCells == {NaN, 1, 2, 3}
LongLengths == {19, 20, 21, 22, 33, 34, 35}
RsiPeriods == {2, 14}
RsiTenths == {0, 300, 455, 700, 1000}

LongFrame(n, tail, vol) ==
    LET close == [i \in 1..n |-> IF i < n THEN 2
                                 ELSE IF tail = "up" THEN 3
                                 ELSE IF tail = "down" THEN 1 ELSE 2]
    IN  Frame(TRUE, "DatetimeIndex", [i \in 1..n |-> i],
              [c \in Range(REQUIRED_OHLCV_COLUMNS) |->
                  IF c = "Volume" /\ ~vol THEN [i \in 1..n |-> NaN] ELSE close],
              FALSE)

\* a frame with enough bars for the 50/200 moving averages
HistoryFrame == LongFrame(201, "flat", TRUE)

IndicatorFrames ==
    {OhlcvFrame(cells) : cells \in SeqsUpTo(IndCells, MaxIndRows) \ {<<>>}}
    \cup {LongFrame(n, tail, vol) : n \in LongLengths, tail \in {"flat", "up", "down"},
                                    vol \in BOOLEAN}

\* what ta.rsi(values, length=period) may return: None or a series that is
\* NaN up to sample period + 1 and holds values of [0, 100] (here in tenths)
RsiOutputs(n, period) ==
    IF ~ta THEN {None}
    ELSE {None, Some(<<NaN>>)}
         \cup (IF n >= period + 1 THEN {Some(<<NaN, v>>) : v \in RsiTenths} ELSE {})

\* what ta.macd(values, 12, 26, 9) may return: None, a frame lacking a
\* column, or a frame whose signal is NaN up to sample 34
MacdOutputs(n) ==
    LET frame(cols, m, s, h) == Some([columns |-> cols, macd |-> m, signal |-> s, hist |-> h])
        all == {"MACD_", "MACDs_", "MACDh_"}
    IN  IF ~ta THEN {None}
        ELSE {None, frame({"MACD_", "MACDs_"}, <<NaN, 1>>, <<NaN, NaN>>, <<>>),
              frame(all, <<NaN, 1>>, <<NaN, NaN>>, <<NaN, NaN>>)}
             \cup (IF n >= 34
                   THEN {frame(all, <<NaN, 5, 7>>, <<NaN, 6, 6>>, <<NaN, -1, 1>>),
                         frame(all, <<5, 4, 2>>, <<NaN, 3, 3>>, <<NaN, 1, -1>>)}
                   ELSE {})

InitIndicators ==
    /\ ta \in BOOLEAN /\ rpt = FALSE /\ talib = FALSE /\ tslearn = FALSE
    /\ df \in IndicatorFrames \cup (IF ta THEN {} ELSE {HistoryFrame})
    /\ last = NoCall

\* compute_rsi(df["Close"], period)
ComputeRsi(period) ==
    /\ last.op = "none"
    /\ last' = [op |-> "compute_rsi", period |-> period,
                ret |-> compute_rsi(df.data["Close"], period)]
    /\ UNCHANGED <<rpt, ta, talib, tslearn, df>>

\* analyze_indicators(df, column, rsi_period)
AnalyzeIndicators(column, rsi_period, ext) ==
    /\ last.op = "none"
    /\ df' = validate_ohlcv_frame(df, REQUIRED_OHLCV_COLUMNS).df
    /\ last' = [op |-> "analyze_indicators", column |-> column, rsi_period |-> rsi_period,
                ext |-> ext, ret |-> analyze_indicators(df, column, rsi_period, ext),
                invoked |-> IF validate_ohlcv_frame(df, REQUIRED_OHLCV_COLUMNS).ret.kind = "raise"
                               \/ column \notin Columns(df)
                            THEN {}
                            ELSE InhouseInvoked(NumericValues(df, column), rsi_period, ext)]
    /\ UNCHANGED <<rpt, ta, talib, tslearn>>

NextIndicators ==
    \/ \E period \in 1..MaxPeriod : ComputeRsi(period)
    \/ \E column \in {"Close", "AdjClose"}, rsi_period \in RsiPeriods :
         \E rsi \in RsiOutputs(Len(NumericValues(df, "Close")), rsi_period),
            macd \in MacdOutputs(Len(NumericValues(df, "Close"))) :
            AnalyzeIndicators(column, rsi_period, [rsi |-> rsi, macd |-> macd])
    \/ Finish

SpecIndicators == InitIndicators /\ [][NextIndicators]_vars

InUnitRange(x) == RLe(RInt(0), x) /\ RLe(x, RInt(100))

(***************************************************************************)
(* C8: for period >= 2 and a series of at least period + 1 numeric         *)
(* samples, the RSI compute_rsi returns and the RSI analyze_indicators     *)
(* reports lie in [0, 100], on the pandas_ta path and on the in-house      *)
(* path; with fewer than period + 1 samples both raise instead of          *)
(* returning a value.                                                      *)
(***************************************************************************)
C8_RsiBounded ==
    LET n == Len(NumericValues(df, "Close"))
    IN  /\ (last.op = "compute_rsi" /\ last.period >= 2)
              => IF n >= last.period + 1
                 THEN last.ret.kind = "return" /\ InUnitRange(last.ret.value)
                 ELSE last.ret.kind = "raise" /\ last.ret.exc = "ValidationError"
        /\ (last.op = "analyze_indicators" /\ last.column = "Close")
              => IF n >= last.rsi_period + 1
                 THEN last.ret.kind = "return" => InUnitRange(last.ret.value.rsi_value)
                 ELSE last.ret.kind = "raise" /\ last.ret.exc = "ValidationError"

\* the in-house smoothing has returned an RSI strictly inside the range
C8_Witness ==
    /\ last.op = "compute_rsi" /\ last.period = 2
    /\ last.ret.kind = "return"
    /\ RLt(RInt(0), last.ret.value) /\ RLt(last.ret.value, RInt(100))

\* analyze_indicators has reported an RSI the backend computed
RsiFromBackendReached ==
    /\ last.op = "analyze_indicators" /\ ta /\ last.ret.kind = "return"
    /\ last.ext.rsi = Some(<<NaN, 455>>)
    /\ last.ret.value.rsi_value = Rat(455, 10)

(***************************************************************************)
(* C9: in analyze_indicators Bollinger, MA crossover, volume state and     *)
(* volatility percentile degrade independently: the fields of one that     *)
(* lacks data are None and the call succeeds, the fields of the others are *)
(* what their computations return and RSI/MACD are what the primary        *)
(* computations return; the call aborts only when RSI or MACD lacks data.  *)
(***************************************************************************)
UsableRsi(ext) == ext.rsi # None /\ DropNa(ext.rsi[1]) # <<>>
UsableMacd(ext) ==
    /\ ext.macd # None
    /\ {"MACD_", "MACDs_", "MACDh_"} \subseteq ext.macd[1].columns
    /\ DropNa(ext.macd[1].macd) # <<>>
    /\ DropNa(ext.macd[1].signal) # <<>>
    /\ DropNa(ext.macd[1].hist) # <<>>

C9_OptionalDegradeIndependently ==
    (last.op = "analyze_indicators" /\ last.column = "Close") =>
        LET values == NumericValues(df, "Close")
            n == Len(values)
            volumes == Len(NumericValues(df, "Volume"))
            rsiLacks == ~(ta /\ UsableRsi(last.ext)) /\ n < last.rsi_period + 1
            macdLacks == ~(ta /\ UsableMacd(last.ext)) /\ n < 35
            stats == last.ret.value
        IN  IF rsiLacks \/ macdLacks THEN last.ret.kind = "raise"
            ELSE /\ last.ret.kind = "return"
                 /\ stats.rsi_value = PrimaryRsi(values, last.rsi_period, last.ext).value
                 /\ stats.macd_value = PrimaryMacd(values, last.ext).value.macd
                 /\ IF n < 20 THEN stats.bb_position = None /\ stats.bb_squeeze = None
                    ELSE /\ stats.bb_position = Some(compute_bollinger(values, 20, 2).value.position)
                         /\ stats.bb_squeeze = Some(compute_bollinger(values, 20, 2).value.squeeze)
                 /\ IF n < 201 THEN stats.ma_cross = None /\ stats.ma_cross_days_ago = None
                    ELSE stats.ma_cross = compute_ma_crossover(values, 50, 200).value.cross
                 /\ IF volumes < 21 THEN stats.volume_ratio = None /\ stats.volume_state = None
                    ELSE /\ stats.volume_ratio = Some(compute_volume_state(df, 20).value.ratio)
                         /\ stats.volume_state = Some(compute_volume_state(df, 20).value.state)
                 /\ IF n < 22
                    THEN stats.volatility_percentile = None /\ stats.volatility_state = None
                    ELSE /\ stats.volatility_percentile =
                              Some(compute_volatility_percentile(values, 20, 252).value.percentile)
                         /\ stats.volatility_state =
                              Some(compute_volatility_percentile(values, 20, 252).value.state)

\* the call has succeeded with the volume fields None for lack of data and
\* the Bollinger and volatility fields present
C9_Witness ==
    /\ last.op = "analyze_indicators" /\ last.ret.kind = "return"
    /\ Len(NumericValues(df, "Volume")) < 21
    /\ last.ret.value.volume_ratio = None /\ last.ret.value.volume_state = None
    /\ last.ret.value.bb_position # None
    /\ last.ret.value.volatility_state # None
    /\ last.ret.value.ma_cross = None

(***************************************************************************)
(* analysis/patterns.py: candlestick patterns.  cdl is what                *)
(* ta.cdl_pattern(open, high, low, close, name=names) returned: None or    *)
(* Some frame [columns, rows]: the columns in the order of names, one row  *)
(* of scores per bar of df.                                                *)
(***************************************************************************)
Bar(f, i) == [open |-> f.data["Open"][i], high |-> f.data["High"][i],
              low |-> f.data["Low"][i], close |-> f.data["Close"][i]]

BullishEngulfing(prev, curr) ==
    /\ prev.close < prev.open /\ curr.close > curr.open
    /\ curr.open <= prev.close /\ curr.close >= prev.open

BearishEngulfing(prev, curr) ==
    /\ prev.close > prev.open /\ curr.close < curr.open
    /\ curr.open >= prev.close /\ curr.close <= prev.open

InsideBar(prev, curr) == curr.high <= prev.high /\ curr.low >= prev.low

\* body / max(high - low, 1e-9) <= 0.10
Doji(curr) ==
    IF curr.high - curr.low > 0
    THEN 10 * Abs(curr.close - curr.open) <= curr.high - curr.low
    ELSE curr.close = curr.open

\* the pattern the in-house scan reads off the bar idx, None if it has none
InhousePatternAt(f, idx) ==
    LET prev == Bar(f, idx - 1)
        curr == Bar(f, idx)
    IN  IF BullishEngulfing(prev, curr) THEN Some("Bullish Engulfing")
        ELSE IF BearishEngulfing(prev, curr) THEN Some("Bearish Engulfing")
        ELSE IF InsideBar(prev, curr) THEN Some("Inside Bar")
        ELSE IF Doji(curr) THEN Some("Doji")
        ELSE None

\* the loop of _detect_candlestick_inhouse: from bar idx back to the second
\* bar of the window, the first bar that holds a pattern
RECURSIVE ScanBack(_, _, _)
\* variant: the oldest bar of the window that holds a pattern
ScanBackOldestFirst(f, idx, first) ==
    IF idx <= first THEN [pattern |-> None, date |-> None]
    ELSE LET older == ScanBack(f, idx - 1, first)
         IN  IF older.pattern # None THEN older
             ELSE IF InhousePatternAt(f, idx) # None
             THEN [pattern |-> InhousePatternAt(f, idx), date |-> Some(f.index[idx])]
             ELSE older

ScanBack(f, idx, first) ==
    IF idx <= first THEN [pattern |-> None, date |-> None]
    ELSE IF InhousePatternAt(f, idx) # None
    THEN [pattern |-> InhousePatternAt(f, idx), date |-> Some(f.index[idx])]
    ELSE ScanBack(f, idx - 1, first)

\* _detect_candlestick_inhouse on window = df.tail(60)
detect_candlestick_inhouse(f) ==
    LET n == Len(f.index)
        first == Max(n - 60, 0) + 1
    IN  IF ~({"High", "Low"} \subseteq Columns(f))
        THEN Raise("ValidationError", "DataFrame must contain High and Low columns for in-house candlestick detection.")
        ELSE IF n < 2 THEN Return([pattern |-> None, date |-> None])
        ELSE Return(ScanBack(f, n, first))

\* the names asked of ta.cdl_pattern, which are its columns in this order
CandlestickNames == IF talib THEN <<"doji", "inside", "engulfing">> ELSE <<"doji", "inside">>

\* _map_candlestick_name
map_candlestick_name(pattern_col, score) ==
    IF pattern_col = "engulfing"
    THEN (IF score > 0 THEN "Bullish Engulfing" ELSE "Bearish Engulfing")
    ELSE IF pattern_col = "doji" THEN "Doji"
    ELSE "Inside Bar"

\* _detect_candlestick_with_pandas_ta
detect_candlestick_with_pandas_ta(f, cdl) ==
    LET patterns == cdl[1]
        nonzero(row) == {k \in DOMAIN patterns.columns : row[k] # NaN /\ row[k] # 0}
        recent_hits == {i \in DOMAIN patterns.rows : nonzero(patterns.rows[i]) # {}}
        last_row == patterns.rows[SetMax(recent_hits)]
        k == CHOOSE k \in nonzero(last_row) : \A j \in nonzero(last_row) : k <= j
    IN  IF cdl = None THEN [pattern |-> None, date |-> None]
        ELSE IF patterns.rows = <<>> \/ recent_hits = {} THEN [pattern |-> None, date |-> None]
        ELSE [pattern |-> Some(map_candlestick_name(patterns.columns[k], last_row[k])),
              date |-> Some(f.index[SetMax(recent_hits)])]

\* a variant of detect_candlestick_pattern that prefers the in-house scan and
\* asks the backend only when the scan finds nothing
detect_candlestick_pattern_inhouse_first(f, cdl) ==
    IF ~({"Open", "Close"} \subseteq Columns(f))
    THEN Raise("ValidationError", "DataFrame must contain Open and Close columns.")
    ELSE IF Len(f.index) < 2 THEN Return([pattern |-> None, date |-> None])
    ELSE LET detected == detect_candlestick_with_pandas_ta(f, cdl)
             scanned == detect_candlestick_inhouse(f)
         IN  IF scanned.kind = "return" /\ scanned.value.pattern = None
                /\ ta /\ {"High", "Low"} \subseteq Columns(f)
             THEN Return(detected)
             ELSE scanned

\* detect_candlestick_pattern
detect_candlestick_pattern(f, cdl) ==
    IF ~({"Open", "Close"} \subseteq Columns(f))
    THEN Raise("ValidationError", "DataFrame must contain Open and Close columns.")
    ELSE IF Len(f.index) < 2 THEN Return([pattern |-> None, date |-> None])
    ELSE LET detected == detect_candlestick_with_pandas_ta(f, cdl)
         IN  IF ta /\ {"High", "Low"} \subseteq Columns(f) /\ detected.pattern # None
             THEN Return(detected)
             ELSE detect_candlestick_inhouse(f)

\* the two detectors detect_candlestick_pattern calls (patterns.py:84-89)
CandlestickCalls(f, cdl) ==
    LET backend == ta /\ {"High", "Low"} \subseteq Columns(f)
    IN  IF ~({"Open", "Close"} \subseteq Columns(f)) \/ Len(f.index) < 2 THEN {}
        ELSE (IF backend THEN {"_detect_candlestick_with_pandas_ta"} ELSE {})
             \cup (IF backend /\ detect_candlestick_with_pandas_ta(f, cdl).pattern # None
                   THEN {} ELSE {"_detect_candlestick_inhouse"})

(***************************************************************************)
(* The candlestick specification: a caller holds a frame of bars and       *)
(* requests detect_candlestick_pattern on it.                              *)
(***************************************************************************)
MaxCandleRows == 2    \* rows of the frames of the candlestick specification
MaxPrice == 3         \* prices 1..MaxPrice

CandleBars ==
    {b \in [open : 1..MaxPrice, high : 1..MaxPrice, low : 1..MaxPrice, close : 1..MaxPrice] :
        b.low <= Min(b.open, b.close) /\ Max(b.open, b.close) <= b.high}

CandleFrame(bars) ==
    Frame(TRUE, "DatetimeIndex", [i \in DOMAIN bars |-> i],
          [c \in Range(REQUIRED_OHLCV_COLUMNS) |->
              [i \in DOMAIN bars |-> IF c = "Open" THEN bars[i].open
                                     ELSE IF c = "High" THEN bars[i].high
                                     ELSE IF c = "Low" THEN bars[i].low
                                     ELSE IF c = "Close" THEN bars[i].close ELSE 1]],
          FALSE)

\* what ta.cdl_pattern may return on n bars: None, an empty frame, or a frame
\* whose scores (0, 100 or -100) are zero outside one bar
CdlOutputs(n) ==
    LET width == Len(CandlestickNames)
        scores == {row \in [1..width -> {0, 100, -100}] : row[1] >= 0 /\ row[2] >= 0}
        frame(rows) == Some([columns |-> CandlestickNames, rows |-> rows])
        zero == [k \in 1..width |-> 0]
    IN  IF ~ta THEN {None}
        ELSE {None, frame(<<>>)}
             \cup {frame([i \in 1..n |-> IF i = at THEN row ELSE zero]) :
                      at \in 1..n, row \in scores}

\* the frame df[keep] and a bar whose four prices are equal
KeepColumns(f, keep) ==
    Frame(f.isDataFrame, f.kind, f.index, [c \in keep |-> f.data[c]], f.validated)

FlatBar == [open |-> 1, high |-> 1, low |-> 1, close |-> 1]

InitCandle ==
    /\ ta \in BOOLEAN /\ talib \in BOOLEAN /\ (talib => ta)
    /\ rpt = FALSE /\ tslearn = FALSE
    /\ df \in {CandleFrame(bars) : bars \in SeqsUpTo(CandleBars, MaxCandleRows) \ {<<>>}}
              \cup {KeepColumns(CandleFrame(bars), keep) :
                       bars \in SeqsUpTo({FlatBar}, MaxCandleRows) \ {<<>>},
                       keep \in {{"Open", "Close", "Volume"}, {"Close", "Volume"}}}
    /\ last = NoCall

\* detect_candlestick_pattern(df)
DetectCandlestickPattern(cdl) ==
    /\ last.op = "none"
    /\ last' = [op |-> "detect_candlestick_pattern", cdl |-> cdl,
                ret |-> detect_candlestick_pattern(df, cdl),
                ran |-> CandlestickCalls(df, cdl)]
    /\ UNCHANGED <<rpt, ta, talib, tslearn, df>>

NextCandle ==
    \/ \E cdl \in CdlOutputs(Len(df.index)) : DetectCandlestickPattern(cdl)
    \/ Finish

SpecCandle == InitCandle /\ [][NextCandle]_vars

Engulfings == {"Bullish Engulfing", "Bearish Engulfing"}

\* the highest pattern in the order Engulfing > Inside Bar > Doji among the
\* patterns the bar holds
HighestOf(engulfing, inside, doji, reported) ==
    IF engulfing THEN reported \in Engulfings
    ELSE IF inside THEN reported = "Inside Bar"
    ELSE doji => reported = "Doji"

\* the candlestick result came from the backend's frame
FromBackend ==
    /\ last.op = "detect_candlestick_pattern" /\ ta
    /\ detect_candlestick_with_pandas_ta(df, last.cdl).pattern # None

(***************************************************************************)
(* C10: when the bar detect_candlestick_pattern reports holds more than    *)
(* one pattern, the pattern reported is the highest in the order           *)
(* Bullish/Bearish Engulfing > Inside Bar > Doji, on the pandas_ta path    *)
(* (the bar's row of scores) and on the in-house path (the bar's prices).  *)
(***************************************************************************)
C10_CandlestickPriority ==
    (last.op = "detect_candlestick_pattern" /\ last.ret.kind = "return"
        /\ last.ret.value.pattern # None) =>
        LET bar == last.ret.value.date[1]
            reported == last.ret.value.pattern[1]
            row == last.cdl[1].rows[bar]
        IN  IF FromBackend
            THEN HighestOf(talib /\ row[Len(row)] # 0, row[2] # 0, row[1] # 0, reported)
            ELSE HighestOf(BullishEngulfing(Bar(df, bar - 1), Bar(df, bar))
                              \/ BearishEngulfing(Bar(df, bar - 1), Bar(df, bar)),
                           InsideBar(Bar(df, bar - 1), Bar(df, bar)),
                           Doji(Bar(df, bar)), reported)

\* the same on the in-house path alone
InhousePriority ==
    (last.op = "detect_candlestick_pattern" /\ ~FromBackend /\ last.ret.kind = "return"
        /\ last.ret.value.pattern # None) =>
        LET bar == last.ret.value.date[1]
        IN  HighestOf(BullishEngulfing(Bar(df, bar - 1), Bar(df, bar))
                         \/ BearishEngulfing(Bar(df, bar - 1), Bar(df, bar)),
                      InsideBar(Bar(df, bar - 1), Bar(df, bar)),
                      Doji(Bar(df, bar)), last.ret.value.pattern[1])

(***************************************************************************)
(* analysis/patterns.py: the chart pattern and detect_patterns.            *)
(***************************************************************************)
\* detect_chart_pattern.  The test of the slope stands before the test of
\* the band of highs: both return (None, None), and the slope is the cheaper.
detect_chart_pattern(f, lookback) ==
    LET n == Len(f.index)
        rows == [k \in 1..Min(n, lookback) |-> n - Min(n, lookback) + k]
        high_rows == SelectSeq(rows, LAMBDA i : f.data["High"][i] # NaN)
        low_rows == SelectSeq(rows, LAMBDA i : f.data["Low"][i] # NaN)
        lows == [k \in DOMAIN low_rows |-> f.data["Low"][low_rows[k]]]
        m == Len(lows)
        \* the sign of the least-squares slope of lows over 0..m-1
        slope == m * Sum([k \in 1..m |-> (k - 1) * lows[k]]) - ((m * (m - 1)) \div 2) * Sum(lows)
        resistance == RQuantile([k \in DOMAIN high_rows |-> RInt(f.data["High"][high_rows[k]])], 17, 20)
        high_band == SelectSeq(high_rows, LAMBDA i :
                        /\ RLe(RMul(Rat(99, 100), resistance), RInt(f.data["High"][i]))
                        /\ RLe(RInt(f.data["High"][i]), RMul(Rat(101, 100), resistance)))
        none == Return([pattern |-> None, since |-> None])
    IN  IF ~({"High", "Low", "Close"} \subseteq Columns(f))
        THEN Raise("ValidationError", "DataFrame must contain High, Low and Close columns.")
        ELSE IF Len(high_rows) < 5 \/ Len(low_rows) < 5 THEN none
        ELSE IF slope <= 0 THEN none
        ELSE IF Len(high_band) < 2 THEN none
        ELSE Return([pattern |-> Some("Ascending triangle"),
                     since |-> Some(f.index[Min(high_band[1], low_rows[1])])])

\* detect_patterns
detect_patterns(f, lookback, cdl) ==
    LET v == validate_ohlcv_frame(f, REQUIRED_OHLCV_COLUMNS)
        chart == detect_chart_pattern(f, lookback)
        candle == detect_candlestick_pattern(f, cdl)
    IN  IF v.ret.kind = "raise" THEN v.ret
        ELSE IF lookback < 10 THEN Raise("ValidationError", "lookback must be >= 10.")
        ELSE IF chart.kind = "raise" THEN chart
        ELSE IF candle.kind = "raise" THEN candle
        ELSE Return([chart_pattern |-> chart.value.pattern,
                     chart_pattern_since |-> chart.value.since,
                     candlestick_pattern |-> candle.value.pattern,
                     candlestick_date |-> candle.value.date])

\* describe_patterns and describe_candlestick: a date is the token of its digits
describe_patterns(stats) ==
    IF stats.chart_pattern = None \/ stats.chart_pattern_since = None
    THEN << <<Word("Patterns:"), Word("none"), Word("detected")>> >>
    ELSE << <<Word("Patterns:"), Word(stats.chart_pattern[1]), Word("forming"), Word("since"),
              Digits(stats.chart_pattern_since[1])>> >>

describe_candlestick(stats) ==
    IF stats.candlestick_pattern = None \/ stats.candlestick_date = None
    THEN << <<Word("Candlestick:"), Word("none"), Word("detected")>> >>
    ELSE << <<Word("Candlestick:"), Word(stats.candlestick_pattern[1]), Word("on"),
              Digits(stats.candlestick_date[1])>> >>

(***************************************************************************)
(* analysis/regimes.py: the checks of analyze_regime and the path it       *)
(* takes; the labels and the start date of the regime are not modelled     *)
(* ("*" in the text).                                                      *)
(***************************************************************************)
\* a variant of analyze_regime that takes the change-point path from window returns on
analyze_regime_from_window(f, column, window) ==
    LET v == validate_ohlcv_frame(f, REQUIRED_OHLCV_COLUMNS)
        returns == PctChangeSize(NumericValues(f, column))
    IN  IF v.ret.kind = "raise" THEN v.ret
        ELSE IF column \notin Columns(f)
        THEN Raise("ValidationError", "Column does not exist in DataFrame.")
        ELSE IF window < 5 THEN Raise("ValidationError", "window must be >= 5.")
        ELSE IF returns < window THEN Raise("ValidationError", "Not enough data to infer regime.")
        ELSE Return([path |-> IF rpt /\ returns >= window THEN "ruptures" ELSE "rolling"])

analyze_regime(f, column, window) ==
    LET v == validate_ohlcv_frame(f, REQUIRED_OHLCV_COLUMNS)
        returns == PctChangeSize(NumericValues(f, column))
    IN  IF v.ret.kind = "raise" THEN v.ret
        ELSE IF column \notin Columns(f)
        THEN Raise("ValidationError", "Column does not exist in DataFrame.")
        ELSE IF window < 5 THEN Raise("ValidationError", "window must be >= 5.")
        ELSE IF returns < window THEN Raise("ValidationError", "Not enough data to infer regime.")
        ELSE Return([path |-> IF rpt /\ returns >= Max(window, 40) THEN "ruptures" ELSE "rolling"])

describe_regime(stats) ==
    << <<Word("Regime:"), Word("*"), Word("since"), Word("*"), Word("(*"), Word("volatility)")>> >>

(***************************************************************************)
(* analyze_indicators as narrate needs it: whether it raises and which     *)
(* optional fields it fills.  usable tells whether the backend's RSI and   *)
(* MACD had values.                                                        *)
(***************************************************************************)
analyze_indicators_shape(f, column, rsi_period, usable) ==
    LET v == validate_ohlcv_frame(f, REQUIRED_OHLCV_COLUMNS)
        n == Len(NumericValues(f, column))
    IN  IF v.ret.kind = "raise" THEN v.ret
        ELSE IF column \notin Columns(f)
        THEN Raise("ValidationError", "Column does not exist in DataFrame.")
        ELSE IF ~(ta /\ usable.rsi) /\ rsi_period < 2
        THEN Raise("ValidationError", "RSI period must be >= 2.")
        ELSE IF ~(ta /\ usable.rsi) /\ n < rsi_period + 1
        THEN Raise("ValidationError", "Not enough data to compute RSI.")
        ELSE IF ~(ta /\ usable.macd) /\ n < 35
        THEN Raise("ValidationError", "Not enough data to compute MACD.")
        ELSE Return([rsi_period |-> rsi_period,
                     bollinger |-> n >= 20, ma_cross |-> n >= 201,
                     volume |-> Len(NumericValues(f, "Volume")) >= 21,
                     volatility |-> n >= 22])

describe_indicators_shape(shape) ==
    << << <<"RSI(">> \o Digits(shape.rsi_period) \o <<"):">>, Word("*"), Word("(*)"),
          Word("MACD:"), Word("*")>> >>
    \o (IF shape.bollinger THEN << <<Word("BB:"), Word("*")>> >> ELSE <<>>)
    \o (IF shape.ma_cross
        THEN << <<Word("SMA"), <<"5", "0", "/", "2", "0", "0", ":">>, Word("*")>> >> ELSE <<>>)
    \o (IF shape.volume
        THEN << <<Word("Volume:"), Word("*x"), <<"2", "0", "-day">>, Word("avg"), Word("(*)")>> >>
        ELSE <<>>)
    \o (IF shape.volatility
        THEN << <<Word("Volatility:"), Word("*"), Word("percentile"), Word("(*)")>> >> ELSE <<>>)

describe_support_resistance_shape ==
    << <<Word("Support:"), Word("*"), Word("Resistance:"), Word("*")>> >>

(***************************************************************************)
(* formatting/serializers.py and compression/digits.py.  sections is the   *)
(* dict narrate filled: a sequence of [key, value], a value the lines of   *)
(* its text.                                                               *)
(***************************************************************************)
format_sections(sections, output_format) ==
    LET values == Flatten([k \in DOMAIN sections |-> sections[k].value])
        keyed(prefix, suffix) ==
            Flatten([k \in DOMAIN sections |->
                <<<<Word(prefix \o sections[k].key \o suffix)>> \o Head(sections[k].value)>>
                \o Tail(sections[k].value)])
    IN  IF output_format = "plain" THEN Return(SelectSeq(values, LAMBDA line : line # <<>>))
        ELSE IF output_format = "markdown_kv" THEN Return(keyed("**", "**:"))
        ELSE IF output_format = "toon" THEN Return(keyed("", ":"))
        ELSE Raise("UnsupportedFormatError", "Unsupported output format")

\* a variant of digit_tokenize that splits the digits line by line
digit_tokenize_by_line(text) ==
    << <<Word("<digits-split>")>> >>
    \o [i \in DOMAIN text |->
           LET pieces == Flatten(text[i]) IN [k \in DOMAIN pieces |-> Word(pieces[k])]]

\* digit_tokenize(text): every digit a token of its own, all whitespace
\* (line ends too) collapsed, below the marker line
digit_tokenize(text) ==
    LET pieces == Flatten(Flatten(text))
    IN  << <<Word("<digits-split>")>>, [k \in DOMAIN pieces |-> Word(pieces[k])] >>

(***************************************************************************)
(* composition/narrate.py.  a holds the keyword arguments of the call, ext *)
(* what pandas_ta answered during it.  narrate's result is given with the  *)
(* sections it handed to the serializer (None if it did not get there) and *)
(* the analyzers it invoked, in order.                                     *)
(***************************************************************************)
IncludeFlags == <<"include_summary", "include_sparkline", "include_regime", "include_indicators",
                  "include_symbolic", "include_patterns", "include_support_resistance">>

Entry(key, value) == [key |-> key, value |-> value]

\* a variant that computes the summary inside the overview and date range
\* steps only
NarrateSteps_summary_on_demand ==
    <<"overview", "date_range", "regime", "indicators", "symbolic", "patterns", "levels">>

\* the steps of narrate's body after its checks, in the order of the code
NarrateSteps == <<"summary", "overview", "date_range", "regime", "indicators", "symbolic",
                  "patterns", "levels">>

\* one step: its outcome (the entries it adds to sections, or what it
\* raises) and the analyzers it invoked
\* a variant of PatternSections with the candlestick section only under pandas_ta
PatternSectionsFromBackend(stats) ==
    <<Entry("patterns", describe_patterns(stats))>>
    \o (IF ta THEN <<Entry("candlestick", describe_candlestick(stats))>> ELSE <<>>)

\* the two sections narrate fills from the pattern statistics
PatternSections(stats) ==
    <<Entry("patterns", describe_patterns(stats)), Entry("candlestick", describe_candlestick(stats))>>

\* one step of the body
Step(name, f, a, ext) ==
    LET step(ret, invoked) == [ret |-> ret, invoked |-> invoked]
        skip == step(Return(<<>>), <<>>)
        one(analyzer, stats, key, text) ==
            step(IF stats.kind = "raise" THEN stats ELSE Return(<<Entry(key, text)>>), <<analyzer>>)
        summary == analyze_summary(f, a.column)
        head == <<Word("*"), <<"(">> \o Digits(summary.value.points), Word("pts,"),
                  Word(summary.value.frequency \o ")")>>
        values == NumericValues(f, a.column)
        sparkline == make_sparkline(values, a.sparkline_width)
        lines == describe_summary(summary.value)
        indicators == analyze_indicators_shape(f, a.column, 14, ext.usable)
        symbolic == sax_encode_guard(f, a.column, a.symbolic_word_size, a.symbolic_alphabet_size)
        patterns == detect_patterns(f, 60, ext.cdl)
    IN  CASE name = "summary" -> step(IF summary.kind = "raise" THEN summary ELSE Return(<<>>),
                                      <<"analyze_summary">>)
          [] name = "overview" ->
                IF ~(a.include_summary \/ a.include_sparkline) THEN skip
                ELSE IF ~a.include_sparkline THEN step(Return(<<Entry("overview", <<head>>)>>), <<>>)
                ELSE IF values = <<>>
                THEN step(Raise("ValidationError",
                                "Column contains no numeric values for sparkline rendering."), <<>>)
                ELSE IF sparkline.kind = "raise" THEN step(sparkline, <<>>)
                ELSE step(Return(<<Entry("overview",
                        <<SubSeq(head, 1, 3) \o <<Word(summary.value.frequency \o "):"),
                                                  sparkline.value>>>>)>>), <<>>)
          [] name = "date_range" ->
                IF ~a.include_summary THEN skip
                ELSE step(Return(<<Entry("date_range", <<<<Word("Date"), Word("range:"), Word("*"),
                                                          Word("to"), Word("*")>>>>),
                                   Entry("range", <<lines[1]>>),
                                   Entry("change", <<lines[2]>>)>>), <<>>)
          [] name = "regime" ->
                IF ~a.include_regime THEN skip
                ELSE one("analyze_regime", analyze_regime(f, a.column, 20), "regime",
                         describe_regime(None))
          [] name = "indicators" ->
                IF ~a.include_indicators THEN skip
                ELSE one("analyze_indicators", indicators, "indicators",
                         IF indicators.kind = "raise" THEN <<>>
                         ELSE describe_indicators_shape(indicators.value))
          [] name = "symbolic" ->
                IF ~a.include_symbolic THEN skip
                ELSE one("sax_encode", symbolic, "symbolic",
                         describe_sax([word_size |-> a.symbolic_word_size, symbols |-> Word("*")]))
          [] name = "patterns" ->
                IF ~a.include_patterns THEN skip
                ELSE IF patterns.kind = "raise" THEN step(patterns, <<"detect_patterns">>)
                ELSE step(Return(PatternSections(patterns.value)), <<"detect_patterns">>)
          [] name = "levels" ->
                IF ~a.include_support_resistance THEN skip
                ELSE one("find_support_resistance",
                         find_support_resistance_guard(f, a.column, Rat(1, 100), 2, 5), "levels",
                         describe_support_resistance_shape)

\* the body of narrate from step k on: it ends at the first step that raises
RECURSIVE RunSections(_, _, _, _, _)
\* a variant of RunSections that keeps the sections built before the failure
RunSectionsKeepPartial(k, acc, f, a, ext) ==
    IF k > Len(NarrateSteps) THEN acc
    ELSE LET s == Step(NarrateSteps[k], f, a, ext)
         IN  IF s.ret.kind = "raise"
             THEN [acc EXCEPT !.invoked = @ \o s.invoked]
             ELSE RunSections(k + 1, [acc EXCEPT !.sections = @ \o s.ret.value,
                                                 !.invoked = @ \o s.invoked], f, a, ext)

RunSections(k, acc, f, a, ext) ==
    IF k > Len(NarrateSteps) THEN acc
    ELSE LET s == Step(NarrateSteps[k], f, a, ext)
         IN  IF s.ret.kind = "raise"
             THEN [acc EXCEPT !.ret = s.ret, !.invoked = @ \o s.invoked]
             ELSE RunSections(k + 1, [acc EXCEPT !.sections = @ \o s.ret.value,
                                                 !.invoked = @ \o s.invoked], f, a, ext)

\* any([...]) of the seven flags
AnyFlag(a) == \E i \in DOMAIN IncludeFlags : a[IncludeFlags[i]]

\* the end of narrate: format_sections, then digit_tokenize if digit_level
Rendered(run, a) ==
    LET rendered == format_sections(run.sections, a.output_format)
    IN  IF run.ret.kind = "raise" THEN [ret |-> run.ret, handed |-> None, invoked |-> run.invoked]
        ELSE [ret |-> IF rendered.kind = "return" /\ a.digit_level
                      THEN Return(digit_tokenize(rendered.value)) ELSE rendered,
              handed |-> Some(run.sections), invoked |-> run.invoked]

\* a variant of narrate that looks at the flags after the body has run
narrate_flags_last(f, a, ext) ==
    LET v == validate_ohlcv_frame(f, REQUIRED_OHLCV_COLUMNS)
        failed(ret) == [ret |-> ret, handed |-> None, invoked |-> <<>>]
        run == RunSections(1, [ret |-> Return(None), sections |-> <<>>, invoked |-> <<>>],
                           v.df, a, ext)
    IN  IF v.ret.kind = "raise" THEN failed(v.ret)
        ELSE IF a.column \notin Columns(f)
        THEN failed(Raise("ValidationError", "Column does not exist in DataFrame."))
        ELSE IF ~AnyFlag(a)
        THEN [failed(Raise("ValidationError", "At least one narration component must be enabled."))
                EXCEPT !.invoked = run.invoked]
        ELSE Rendered(run, a)

\* narrate
narrate(f, a, ext) ==
    LET v == validate_ohlcv_frame(f, REQUIRED_OHLCV_COLUMNS)
        failed(ret) == [ret |-> ret, handed |-> None, invoked |-> <<>>]
        run == RunSections(1, [ret |-> Return(None), sections |-> <<>>, invoked |-> <<>>],
                           v.df, a, ext)
    IN  IF v.ret.kind = "raise" THEN failed(v.ret)
        ELSE IF a.column \notin Columns(f)
        THEN failed(Raise("ValidationError", "Column does not exist in DataFrame."))
        ELSE IF ~AnyFlag(a)
        THEN failed(Raise("ValidationError", "At least one narration component must be enabled."))
        ELSE Rendered(run, a)

(***************************************************************************)
(* The narration specification: a caller holds a frame, in an environment  *)
(* with or without each optional backend, and calls narrate once.          *)
(***************************************************************************)
\* the lengths of the frames: around the sample counts the analyzers ask for
\* (support/resistance 13, RSI 15, SAX 16, regime 21, MACD 34 and 35,
\* regime with ruptures 41)
NarrateLengths == {2, 12, 14, 20, 34, 41}

NarrateFrames ==
    {LongFrame(n, "flat", TRUE) : n \in NarrateLengths}
    \cup {[LongFrame(12, "flat", TRUE) EXCEPT !.data["Close"] = [i \in 1..12 |-> NaN]],
          Frame(TRUE, "DatetimeIndex", <<1, 2, 3>>, [c \in {"Open", "Close"} |-> <<2, 2, 2>>], FALSE)}

DefaultArgs ==
    [column |-> "Close", sparkline_width |-> 20, symbolic_word_size |-> 16,
     symbolic_alphabet_size |-> 8, digit_level |-> FALSE, output_format |-> "plain"]

\* the keyword arguments other than the flags: the defaults, or one of them changed
ArgChoices ==
    {DefaultArgs,
     [DefaultArgs EXCEPT !.column = "AdjClose"],
     [DefaultArgs EXCEPT !.sparkline_width = 0],
     [DefaultArgs EXCEPT !.symbolic_word_size = 1],
     [DefaultArgs EXCEPT !.symbolic_alphabet_size = 27],
     [DefaultArgs EXCEPT !.digit_level = TRUE],
     [DefaultArgs EXCEPT !.digit_level = TRUE, !.output_format = "markdown_kv"],
     [DefaultArgs EXCEPT !.output_format = "markdown_kv"],
     [DefaultArgs EXCEPT !.output_format = "toon"],
     [DefaultArgs EXCEPT !.output_format = "json"]}

\* every combination of the flags with either column; all flags, one flag or
\* no flag with the other arguments
NarrateArgs ==
    LET FlagSets == [Range(IncludeFlags) -> BOOLEAN]
        few == {g \in FlagSets : Cardinality({k \in Range(IncludeFlags) : g[k]}) \in {0, 1, 7}}
        call(o, flags) ==
            [k \in DOMAIN o \cup Range(IncludeFlags) |-> IF k \in DOMAIN o THEN o[k] ELSE flags[k]]
    IN  {call(o, flags) : o \in {DefaultArgs, [DefaultArgs EXCEPT !.column = "AdjClose"]},
                          flags \in FlagSets}
        \cup {call(o, flags) : o \in ArgChoices, flags \in few}

\* what pandas_ta answered during the call: whether its RSI and MACD had a
\* value (RSI has none before sample 15, the MACD signal none before 34
\* samples), and the frame of ta.cdl_pattern
NarrateExts(f) ==
    LET n == Len(f.index)
        zero == [k \in 1..Len(CandlestickNames) |-> 0]
        hit == Some([columns |-> CandlestickNames,
                     rows |-> [i \in 1..n |-> IF i = n THEN [zero EXCEPT ![1] = 100] ELSE zero]])
    IN  IF ~ta THEN {[usable |-> [rsi |-> FALSE, macd |-> FALSE], cdl |-> None]}
        ELSE {[usable |-> [rsi |-> FALSE, macd |-> FALSE], cdl |-> None],
              [usable |-> [rsi |-> n >= 15, macd |-> n >= 34], cdl |-> hit]}

InitNarrate ==
    /\ rpt \in BOOLEAN /\ ta \in BOOLEAN /\ talib = FALSE /\ tslearn \in BOOLEAN
    /\ df \in NarrateFrames
    /\ last = NoCall

\* narrate(df, **a)
Narrate(a, ext) ==
    /\ last.op = "none"
    /\ last' = [op |-> "narrate", a |-> a, ext |-> ext] @@ narrate(df, a, ext)
    /\ df' = validate_ohlcv_frame(df, REQUIRED_OHLCV_COLUMNS).df
    /\ UNCHANGED <<rpt, ta, talib, tslearn>>

NextNarrate == \E a \in NarrateArgs, ext \in NarrateExts(df) : Narrate(a, ext)

SpecNarrate == InitNarrate /\ [][NextNarrate]_vars

NarrateCalled == last.op = "narrate"

\* the frame the call was made on passed validation (narrate marks it)
FramePassed == df.validated

(***************************************************************************)
(* C1: narrate fails fast on an invalid configuration.  If the requested   *)
(* column is not in the frame or all seven include_* flags are false, it   *)
(* raises ValidationError, invokes no analyzer and returns no text; on a   *)
(* frame that passes validation the message is the one of the missing      *)
(* column ("does not exist"), resp. with the column present the one of the *)
(* flags ("At least one").                                                 *)
(***************************************************************************)
C1_NarrateFailsFast ==
    NarrateCalled /\ (last.a.column \notin Columns(df) \/ ~AnyFlag(last.a)) =>
        /\ last.ret.kind = "raise" /\ last.ret.exc = "ValidationError"
        /\ last.invoked = <<>> /\ last.handed = None
        /\ FramePassed /\ last.a.column \notin Columns(df)
              => last.ret.msg = "Column does not exist in DataFrame."
        /\ FramePassed /\ last.a.column \in Columns(df)
              => last.ret.msg = "At least one narration component must be enabled."

C1_Witness ==
    /\ NarrateCalled /\ FramePassed /\ last.a.column \in Columns(df) /\ ~AnyFlag(last.a)
    /\ last.ret.kind = "raise"
    /\ last.ret.msg = "At least one narration component must be enabled."

\* the requested column is missing on a frame that passed validation
MissingColumnReached ==
    /\ NarrateCalled /\ FramePassed /\ last.a.column \notin Columns(df)
    /\ last.ret.kind = "raise" /\ last.ret.msg = "Column does not exist in DataFrame."

\* the sections of an enabled flag
SectionsOf == [include_summary |-> <<"overview", "date_range", "range", "change">>,
               include_sparkline |-> <<"overview">>,
               include_regime |-> <<"regime">>,
               include_indicators |-> <<"indicators">>,
               include_symbolic |-> <<"symbolic">>,
               include_patterns |-> <<"patterns", "candlestick">>,
               include_support_resistance |-> <<"levels">>]

\* the mandatory computation of an enabled analyzer fails on the frame
EnabledAnalyzerFails ==
    LET a == last.a
    IN  \/ (a.include_summary \/ a.include_sparkline) /\ analyze_summary(df, a.column).kind = "raise"
        \/ a.include_regime /\ analyze_regime(df, a.column, 20).kind = "raise"
        \/ a.include_indicators
              /\ analyze_indicators_shape(df, a.column, 14, last.ext.usable).kind = "raise"
        \/ a.include_symbolic
              /\ sax_encode_guard(df, a.column, a.symbolic_word_size,
                                  a.symbolic_alphabet_size).kind = "raise"
        \/ a.include_patterns /\ detect_patterns(df, 60, last.ext.cdl).kind = "raise"
        \/ a.include_support_resistance
              /\ find_support_resistance_guard(df, a.column, Rat(1, 100), 2, 5).kind = "raise"

HandedKeys == {last.handed[1][k].key : k \in DOMAIN last.handed[1]}

(***************************************************************************)
(* C2: partial narration is never emitted.  If the mandatory computation   *)
(* of an enabled analyzer fails, narrate raises and returns no text; a     *)
(* narration that is returned holds every section of every enabled flag.   *)
(***************************************************************************)
C2_NoPartialNarration ==
    NarrateCalled =>
        /\ EnabledAnalyzerFails => last.ret.kind = "raise" /\ last.handed = None
        /\ last.ret.kind = "return" =>
              \A i \in DOMAIN IncludeFlags :
                  last.a[IncludeFlags[i]] => Range(SectionsOf[IncludeFlags[i]]) \subseteq HandedKeys

\* the regime fails for want of samples after the summary sections were built
C2_Witness ==
    /\ NarrateCalled /\ last.a.include_summary /\ last.a.include_regime
    /\ analyze_summary(df, last.a.column).kind = "return"
    /\ last.ret.kind = "raise" /\ last.ret.msg = "Not enough data to infer regime."
    /\ last.invoked = <<"analyze_summary", "analyze_regime">>

SectionOrder == <<"overview", "date_range", "range", "change", "regime", "indicators",
                  "symbolic", "patterns", "candlestick", "levels">>

\* the sections the flags enable, in the fixed order
EnabledSections(a) ==
    SelectSeq(SectionOrder, LAMBDA key :
        \E i \in DOMAIN IncludeFlags : a[IncludeFlags[i]] /\ key \in Range(SectionsOf[IncludeFlags[i]]))

(***************************************************************************)
(* C3: whenever narrate hands its sections to the serializer, their keys   *)
(* are, in this order, overview, date_range, range, change, regime,        *)
(* indicators, symbolic, patterns, candlestick, levels restricted to the   *)
(* sections the flags enable: the keys are a function of the flags alone,  *)
(* whichever of ruptures, pandas_ta and tslearn is installed and whatever  *)
(* the backend answered.                                                   *)
(***************************************************************************)
C3_FixedSectionOrder ==
    NarrateCalled /\ last.handed # None =>
        [k \in DOMAIN last.handed[1] |-> last.handed[1][k].key] = EnabledSections(last.a)

\* all ten sections handed over with every backend installed
C3_Witness ==
    /\ NarrateCalled /\ rpt /\ ta /\ tslearn
    /\ last.handed # None /\ Len(last.handed[1]) = 10 /\ last.ret.kind = "return"

\* the candlestick section is handed over without pandas_ta too
C3_WithoutBackendsReached ==
    /\ NarrateCalled /\ ~rpt /\ ~ta /\ ~tslearn
    /\ last.handed # None /\ "candlestick" \in HandedKeys

(***************************************************************************)
(* analysis/patterns.py: the backward scan of the in-house detection.      *)
(***************************************************************************)
MaxScanRows == 3
ScanLengths == {60, 61, 62}

\* bars of the scanned frames: a small rising bar, a small falling bar, the
\* two bars that engulf them, a doji and a bar that rises above the first
ScanBars ==
    {[open |-> 1, high |-> 2, low |-> 1, close |-> 2],
     [open |-> 2, high |-> 2, low |-> 1, close |-> 1],
     [open |-> 1, high |-> 3, low |-> 1, close |-> 3],
     [open |-> 3, high |-> 3, low |-> 1, close |-> 1],
     [open |-> 2, high |-> 3, low |-> 1, close |-> 2],
     [open |-> 2, high |-> 3, low |-> 2, close |-> 3]}

\* n rising bars, each above the one before, where bar k alone is a doji
Staircase(n, k) ==
    CandleFrame([i \in 1..n |-> [open |-> i, high |-> i + 1, low |-> i,
                                 close |-> IF i = k THEN i ELSE i + 1]])

InitCandleScan ==
    /\ ta \in BOOLEAN /\ talib = FALSE
    /\ rpt = FALSE /\ tslearn = FALSE
    /\ df \in {CandleFrame(bars) : bars \in SeqsUpTo(ScanBars, MaxScanRows) \ {<<>>}}
              \cup {Staircase(n, k) : n \in ScanLengths, k \in 1..3}
    /\ last = NoCall

NextCandleScan ==
    \/ \E cdl \in CdlOutputs(Len(df.index)) : DetectCandlestickPattern(cdl)
    \/ Finish

SpecCandleScan == InitCandleScan /\ [][NextCandleScan]_vars

\* the in-house patterns that bar i of the frame holds against bar i - 1
HeldPatterns(f, i) ==
    {p \in {"Bullish Engulfing", "Bearish Engulfing", "Inside Bar", "Doji"} :
        \/ p = "Bullish Engulfing" /\ BullishEngulfing(Bar(f, i - 1), Bar(f, i))
        \/ p = "Bearish Engulfing" /\ BearishEngulfing(Bar(f, i - 1), Bar(f, i))
        \/ p = "Inside Bar" /\ InsideBar(Bar(f, i - 1), Bar(f, i))
        \/ p = "Doji" /\ Doji(Bar(f, i))}

\* the bars of the last 60 rows that have their predecessor among those rows
\* and hold a pattern
ScannedHits(f) ==
    LET n == Len(f.index)
    IN  {i \in (Max(n - 60, 0) + 2)..n : HeldPatterns(f, i) # {}}

InhouseCalled ==
    last.op = "detect_candlestick_pattern" /\ ~FromBackend /\ last.ret.kind = "return"

C11_OlderBarReached ==
    /\ InhouseCalled /\ ScannedHits(df) # {}
    /\ SetMax(ScannedHits(df)) < Len(df.index)
    /\ last.ret.value.date = Some(df.index[SetMax(ScannedHits(df))])

\* a frame of more than 60 rows whose only pattern bar lies before the
\* scanned bars is reported as holding none
C11_WindowReached ==
    /\ InhouseCalled /\ Len(df.index) > 60
    /\ \E i \in 2..Len(df.index) : HeldPatterns(df, i) # {}
    /\ last.ret.value = [pattern |-> None, date |-> None]

\* a frame of one row
C11_OneRowReached ==
    InhouseCalled /\ Len(df.index) = 1 /\ last.ret.value.pattern = None

(***************************************************************************)
(* analysis/regimes.py: the labels and the start date of the regime.       *)
(* Returns are carried as integers in units of 1/RateScale; the frames of  *)
(* the regime specification hold positive prices without NaN.              *)
(***************************************************************************)
RateScale == 100000
\* trend_threshold = 0.0005 in units of 1/RateScale
DefaultTrendThreshold == 50

\* prices.pct_change().dropna() of positive prices, rounded down to a
\* multiple of 1/RateScale: the exact returns of a long ramp have no common
\* denominator within the integers of the checker
PctChangeScaled(values) ==
    <<>> \o [i \in 1..(Len(values) - 1) |->
                ((values[i + 1] - values[i]) * RateScale) \div values[i]]

\* the timestamps of the rows whose cell of the column is a number
NumericIndex(f, column) ==
    LET rows == SelectSeq([i \in DOMAIN f.index |-> i], LAMBDA i : f.data[column][i] # NaN)
    IN  [k \in DOMAIN rows |-> f.index[rows[k]]]

\* variant: labels by the sign of the mean return alone
trend_label_by_sign(mean_return, threshold) ==
    IF RLt(RInt(0), mean_return) THEN "Uptrend"
    ELSE IF RLt(mean_return, RInt(0)) THEN "Downtrend"
    ELSE "Ranging"

\* _trend_label
trend_label(mean_return, threshold) ==
    IF RLt(threshold, mean_return) THEN "Uptrend"
    ELSE IF RLt(mean_return, RSub(RInt(0), threshold)) THEN "Downtrend"
    ELSE "Ranging"

Mean(xs) == Rat(Sum(xs), Len(xs))
\* Len(xs)^2 times the variance of xs (ddof=0)
ScaledVariance(xs) == Len(xs) * SumSq(xs) - Sum(xs) * Sum(xs)

\* p/s > r/q for p, r >= 0 and s, q > 0, by continued fractions: no product
\* is formed, so the comparison is exact for all integers of the checker
RECURSIVE FracGt(_, _, _, _)
FracGt(p, s, r, q) ==
    IF p \div s # r \div q THEN p \div s > r \div q
    ELSE IF p % s = 0 THEN FALSE
    ELSE IF r % q = 0 THEN TRUE
    ELSE FracGt(q, r % q, s, p % s)

\* the k-th smallest element of a sequence of integers
KthSmallest(s, k) ==
    CHOOSE v \in Range(s) :
        /\ Cardinality({i \in DOMAIN s : s[i] < v}) < k
        /\ k <= Cardinality({i \in DOMAIN s : s[i] <= v})

\* sqrt(v) > (sqrt(a) + sqrt(b)) / 2, where a and b are the two middle
\* elements of the sorted rolling variances (the same element when their
\* count is odd): the rolling std against the median of the rolling stds
RootAboveMedian(v, a, b) ==
    LET x == 4 * v - a - b
    IN  x > 0 /\ (a = 0 \/ FracGt(x, 4 * a, b, x))

\* a variant that hands the window to rpt.Pelt as it comes
PeltMinSize_unclamped(min_size) == min_size

\* the minimum segment size handed to rpt.Pelt
PeltMinSize(min_size) == Max(10, min_size)

\* _analyze_with_ruptures; bkpts is what algo.predict returned, index the
\* timestamps of the returns
analyze_with_ruptures(returns, index, trend_threshold, bkpts) ==
    LET last_start == IF Len(bkpts) > 1 THEN bkpts[Len(bkpts) - 1] ELSE 0
        last_end == IF bkpts # <<>> THEN Last(bkpts) ELSE Len(returns)
        slice == SubSeq(returns, last_start + 1, Min(last_end, Len(returns)))
        segment == IF slice = <<>> THEN returns ELSE slice
        start == IF slice = <<>> THEN 0 ELSE last_start
    IN  [trend_label |-> trend_label(Mean(segment), trend_threshold),
         volatility_label |-> IF FracGt(ScaledVariance(segment), Len(segment) * Len(segment),
                                        ScaledVariance(returns), Len(returns) * Len(returns))
                              THEN "high" ELSE "low",
         start_date |-> index[start + 1]]

\* the (trend, volatility) labels of the rolling samples, for
\* Len(returns) >= window: rolling sample k covers the returns k..k+window-1
rolling_labels(returns, window, trend_threshold) ==
    LET count == Len(returns) - window + 1
        sample(k) == SubSeq(returns, k, k + window - 1)
        rolling_std == <<>> \o [k \in 1..count |-> ScaledVariance(sample(k))]
        lower == KthSmallest(rolling_std, (count + 1) \div 2)
        upper == KthSmallest(rolling_std, count \div 2 + 1)
    IN  <<>> \o [k \in 1..count |->
                    <<trend_label(Mean(sample(k)), trend_threshold),
                      IF RootAboveMedian(rolling_std[k], lower, upper)
                      THEN "high" ELSE "low">>]

\* a variant of _analyze_with_rolling that starts the regime at the earliest
\* rolling sample that carries the current labels
analyze_with_rolling_earliest_match(returns, index, window, trend_threshold) ==
    LET labels == rolling_labels(returns, window, trend_threshold)
        count == Len(labels)
        start == CHOOSE k \in 1..count :
                     labels[k] = labels[count] /\ \A j \in 1..(k - 1) : labels[j] # labels[count]
    IN  [trend_label |-> labels[count][1],
         volatility_label |-> labels[count][2],
         start_date |-> index[start + window - 1]]

\* _analyze_with_rolling: rolling sample k carries the timestamp of the last
\* of its returns
analyze_with_rolling(returns, index, window, trend_threshold) ==
    LET labels == rolling_labels(returns, window, trend_threshold)
        count == Len(labels)
        \* the loop from the last sample back breaks at the latest sample
        \* whose labels differ from the current ones
        breaks == {idx \in 1..count : labels[idx] # labels[count]}
        start == IF breaks = {} THEN 1 ELSE SetMax(breaks) + 1
    IN  [trend_label |-> labels[count][1],
         volatility_label |-> labels[count][2],
         start_date |-> index[start + window - 1]]

\* analyze_regime past its checks: the RegimeStats of the path that runs
analyze_regime_stats(f, column, window, trend_threshold, bkpts) ==
    LET checked == analyze_regime(f, column, window)
        returns == PctChangeScaled(NumericValues(f, column))
        index == Tail(NumericIndex(f, column))
    IN  IF checked.kind = "raise" THEN checked
        ELSE IF checked.value.path = "ruptures"
        THEN Return([path |-> "ruptures"]
                    @@ analyze_with_ruptures(returns, index, trend_threshold, bkpts))
        ELSE Return([path |-> "rolling"]
                    @@ analyze_with_rolling(returns, index, window, trend_threshold))

(***************************************************************************)
(* Specification of the regime classifier: analyze_regime on ramps of      *)
(* prices, with and without the change-point backend.                      *)
(***************************************************************************)
MaxBreaks == 1
RegimeLengths == {5, 6, 20, 21, 40, 41, 50, 51, 120}
RegimeBases == {1000, 1900, 2500}
RegimeShapes == {"up", "down", "slow then fast", "fast then slow"}
RegimeWindows == {4, 5, 20, 50}

RegimeFrame(n, base, shape) ==
    LET half == n \div 2
        close == [i \in 1..n |->
                    IF shape = "up" THEN base + i
                    ELSE IF shape = "down" THEN base + n - i
                    ELSE IF shape = "slow then fast"
                    THEN (IF i <= half THEN base + i ELSE base + half + 3 * (i - half))
                    ELSE (IF i <= half THEN base + 3 * i ELSE base + 3 * half + (i - half))]
    IN  Frame(TRUE, "DatetimeIndex", [i \in 1..n |-> i],
              [c \in Range(REQUIRED_OHLCV_COLUMNS) |-> close], FALSE)

\* what algo.predict may return on n samples: sorted breakpoints that are
\* multiples of the jump 5 (here every second of them, the multiples of 10),
\* segments of at least min_size, the last one n
RECURSIVE BreakLists(_, _, _, _)
BreakLists(from, n, min_size, breaks) ==
    {<<n>>} \cup
    (IF breaks = 0 THEN {}
     ELSE UNION {{<<k>> \o rest : rest \in BreakLists(k, n, min_size, breaks - 1)} :
                    k \in {j \in (from + min_size)..(n - min_size) : j % 10 = 0}})

RupturesOutputs(n, min_size) == BreakLists(0, n, min_size, MaxBreaks)

RegimeExts(f, window) ==
    LET checked == analyze_regime(f, "Close", window)
    IN  IF checked.kind = "return" /\ checked.value.path = "ruptures"
        THEN RupturesOutputs(Len(f.index) - 1, PeltMinSize(window))
        ELSE {<<>>}

InitRegime ==
    /\ rpt \in BOOLEAN
    /\ ta = FALSE /\ talib = FALSE /\ tslearn = FALSE
    /\ df \in {RegimeFrame(n, base, shape) :
                  n \in RegimeLengths, base \in RegimeBases, shape \in RegimeShapes}
    /\ last = NoCall

\* the arguments of rpt.Pelt(...) when the change-point path runs, else None
PeltCall(f, column, window) ==
    LET checked == analyze_regime(f, column, window)
    IN  IF checked.kind = "return" /\ checked.value.path = "ruptures"
        THEN Some([model |-> "rbf", min_size |-> PeltMinSize(window)])
        ELSE None

\* analyze_regime(df, window=window)
AnalyzeRegime(window, bkpts) ==
    /\ last.op = "none"
    /\ last' = [op |-> "analyze_regime", window |-> window, bkpts |-> bkpts,
                pelt |-> PeltCall(df, "Close", window),
                ret |-> analyze_regime_stats(df, "Close", window,
                                             RInt(DefaultTrendThreshold), bkpts)]
    /\ df' = validate_ohlcv_frame(df, REQUIRED_OHLCV_COLUMNS).df
    /\ UNCHANGED <<rpt, ta, talib, tslearn>>

NextRegime ==
    \/ \E window \in RegimeWindows : \E bkpts \in RegimeExts(df, window) :
          AnalyzeRegime(window, bkpts)
    \/ Finish

SpecRegime == InitRegime /\ [][NextRegime]_vars

StrictlyIncreasing(s) == \A i \in 1..(Len(s) - 1) : s[i] < s[i + 1]

\* the returns whose mean decides the trend label of the call
ClassifiedSpan ==
    LET returns == PctChangeScaled(NumericValues(df, "Close"))
    IN  IF last.ret.value.path = "rolling" THEN TailN(returns, last.window)
        ELSE IF Len(last.bkpts) > 1
        THEN SubSeq(returns, last.bkpts[Len(last.bkpts) - 1] + 1, Len(returns))
        ELSE returns

RegimeOfRamp ==
    /\ last.op = "analyze_regime" /\ last.window = 20
    /\ Len(df.index) = 120 /\ StrictlyIncreasing(df.data["Close"])

C12_RangingReached ==
    /\ RegimeOfRamp /\ last.ret.value.path = "rolling"
    /\ last.ret.value.trend_label = "Ranging"

C12_RollingUptrendReached ==
    /\ RegimeOfRamp /\ last.ret.value.path = "rolling"
    /\ last.ret.value.trend_label = "Uptrend"

(***************************************************************************)
(* Specification of the indicators on flat series: every close equal, of   *)
(* lengths around the thresholds of the Bollinger period (20), the         *)
(* volatility window (22 = 20 + 2), the MACD signal (34) and the slow      *)
(* moving average (201 = 200 + 1), beside series that move in the last bar.*)
(***************************************************************************)
FlatLengths == {1, 19, 20, 21, 22, 34, 35, 200, 201}
FlatPrices == {2, 5}

\* n bars at one price; the last bar moves by one when tail is not "flat"
PriceFrame(n, price, tail) ==
    LET close == [i \in 1..n |-> IF i < n \/ tail = "flat" THEN price
                                 ELSE IF tail = "up" THEN price + 1 ELSE price - 1]
    IN  Frame(TRUE, "DatetimeIndex", [i \in 1..n |-> i],
              [c \in Range(REQUIRED_OHLCV_COLUMNS) |-> close], FALSE)

InitFlat ==
    /\ ta \in BOOLEAN /\ rpt = FALSE /\ talib = FALSE /\ tslearn = FALSE
    /\ df \in {PriceFrame(n, price, "flat") : n \in FlatLengths, price \in FlatPrices}
              \cup {PriceFrame(n, price, tail) : n \in {m \in FlatLengths : m <= 35},
                                                price \in FlatPrices, tail \in {"up", "down"}}
    /\ last = NoCall

\* compute_bollinger(df["Close"])
ComputeBollinger ==
    /\ last.op = "none"
    /\ last' = [op |-> "compute_bollinger", ret |-> compute_bollinger(df.data["Close"], 20, 2)]
    /\ UNCHANGED <<rpt, ta, talib, tslearn, df>>

\* compute_ma_crossover(df["Close"])
ComputeMaCrossover ==
    /\ last.op = "none"
    /\ last' = [op |-> "compute_ma_crossover",
                ret |-> compute_ma_crossover(df.data["Close"], 50, 200)]
    /\ UNCHANGED <<rpt, ta, talib, tslearn, df>>

\* compute_volatility_percentile(df["Close"])
ComputeVolatilityPercentile ==
    /\ last.op = "none"
    /\ last' = [op |-> "compute_volatility_percentile",
                ret |-> compute_volatility_percentile(df.data["Close"], 20, 252)]
    /\ UNCHANGED <<rpt, ta, talib, tslearn, df>>

NextFlat ==
    \/ ComputeBollinger
    \/ ComputeMaCrossover
    \/ ComputeVolatilityPercentile
    \/ \E rsi \in RsiOutputs(Len(NumericValues(df, "Close")), 14),
          macd \in MacdOutputs(Len(NumericValues(df, "Close"))) :
          AnalyzeIndicators("Close", 14, [rsi |-> rsi, macd |-> macd])
    \/ Finish

SpecFlat == InitFlat /\ [][NextFlat]_vars

FlatSeries ==
    \A i \in DOMAIN df.data["Close"] : df.data["Close"][i] = df.data["Close"][1]

Samples == Len(NumericValues(df, "Close"))

\* C13 as stated: for a flat series of any length the MA crossover is None
\* and the Bollinger position is "at midline".
C13_FlatNoCrossAtMidline ==
    FlatSeries =>
        /\ last.op = "compute_ma_crossover" => last.ret = Return([cross |-> None, days |-> None])
        /\ last.op = "compute_bollinger" =>
              last.ret.kind = "return" /\ last.ret.value.position = "at midline"
        /\ (last.op = "analyze_indicators" /\ last.ret.kind = "return") =>
              /\ last.ret.value.ma_cross = None
              /\ last.ret.value.bb_position = Some("at midline")

\* C13 amended: for a flat series the MA crossover has no recency and its
\* label is None below 201 samples and "golden cross" from 201 samples on;
\* the Bollinger position is "at midline" from 20 samples on, and below 20
\* samples compute_bollinger raises ValidationError and analyze_indicators
\* reports no position.
C13_FlatCrossByLength ==
    FlatSeries =>
        LET cross == IF Samples >= 201 THEN Some("golden cross") ELSE None
        IN  /\ last.op = "compute_ma_crossover" =>
                  last.ret = Return([cross |-> cross, days |-> None])
            /\ last.op = "compute_bollinger" =>
                  IF Samples >= 20
                  THEN last.ret.kind = "return" /\ last.ret.value.position = "at midline"
                  ELSE last.ret.kind = "raise" /\ last.ret.exc = "ValidationError"
            /\ (last.op = "analyze_indicators" /\ last.ret.kind = "return") =>
                  /\ last.ret.value.ma_cross = cross
                  /\ last.ret.value.ma_cross_days_ago = None
                  /\ last.ret.value.bb_position =
                        IF Samples >= 20 THEN Some("at midline") ELSE None

\* analyze_indicators on a flat series long enough for the slow average
C13_Witness ==
    /\ FlatSeries /\ Samples >= 201
    /\ last.op = "analyze_indicators" /\ last.ret.kind = "return"
    /\ last.ret.value.ma_cross = Some("golden cross")
    /\ last.ret.value.bb_position = Some("at midline")

C13_ShortFlatReached ==
    /\ FlatSeries /\ Samples < 201
    /\ last.op = "analyze_indicators" /\ last.ret.kind = "return"
    /\ last.ret.value.ma_cross = None
    /\ last.ret.value.bb_position = Some("at midline")

C13_BollingerRaisesReached ==
    FlatSeries /\ last.op = "compute_bollinger" /\ last.ret.kind = "raise"

\* C14: on a flat series compute_volatility_percentile raises the error of
\* insufficient data or reports "extremely low", and nothing else.
C14_FlatVolatilityExtremelyLow ==
    (FlatSeries /\ last.op = "compute_volatility_percentile") =>
        \/ last.ret.kind = "raise" /\ last.ret.exc = "ValidationError"
        \/ last.ret.kind = "return" /\ last.ret.value.state = "extremely low"

\* what the code does on a flat series: ValidationError below 22 samples,
\* percentile 100 and "extremely high" from 22 samples on
FlatVolatilityByLength ==
    (FlatSeries /\ last.op = "compute_volatility_percentile") =>
        IF Samples < 22
        THEN last.ret.kind = "raise" /\ last.ret.exc = "ValidationError"
        ELSE last.ret = Return([percentile |-> 100, state |-> "extremely high"])

FlatVolatilityReached ==
    /\ FlatSeries /\ Samples >= 22 /\ last.op = "compute_volatility_percentile"
    /\ last.ret.kind = "return"

(***************************************************************************)
(* The order of the returned levels: find_support_resistance on frames of  *)
(* finite prices, with arguments that pass its checks.                     *)
(***************************************************************************)
MaxRankRows == 5
RankCells == {1, 2, 3}

InitLevelOrder ==
    /\ rpt = FALSE /\ ta = FALSE /\ talib = FALSE /\ tslearn = FALSE
    /\ df \in {OhlcvFrame(cells) : cells \in SeqsUpTo(RankCells, MaxRankRows) \ {<<>>}}
    /\ last = NoCall

NextLevelOrder ==
    \/ \E ratio \in ToleranceRatios \ {Rat(0, 1)}, max_levels \in 1..MaxLevels, order \in 1..2 :
         FindSupportResistance("Close", ratio, max_levels, order)
    \/ Finish

SpecLevelOrder == InitLevelOrder /\ [][NextLevelOrder]_vars

\* level a stands before level b in the ranking of its side
RankedBefore(a, b, supports) ==
    \/ a.touches > b.touches
    \/ a.touches = b.touches
       /\ (IF supports THEN RLe(b.price, a.price) ELSE RLe(a.price, b.price))

Ranked(levels, supports) ==
    \A i \in DOMAIN levels : \A j \in DOMAIN levels :
        i < j => RankedBefore(levels[i], levels[j], supports)

IsPrefix(s, t) == Len(s) <= Len(t) /\ s = SubSeq(t, 1, Len(s))

\* the same call without a limit on the number of levels
AllLevels ==
    find_support_resistance(df, last.column, last.tolerance_ratio, Len(df.index),
                            last.extrema_order).value

\* C15: the returned levels of each side are ranked by touch count
\* descending, supports of equal touch count by price descending and
\* resistances of equal touch count by price ascending, and they are the
\* first max_levels levels of the ranking of all levels of their side.
C15_LevelsRankedAndTruncated ==
    LevelsReturned =>
        /\ Ranked(AllLevels.supports, TRUE)
        /\ Ranked(AllLevels.resistances, FALSE)
        /\ IsPrefix(last.ret.value.supports, AllLevels.supports)
        /\ IsPrefix(last.ret.value.resistances, AllLevels.resistances)
        /\ Len(last.ret.value.supports) = Min(last.max_levels, Len(AllLevels.supports))
        /\ Len(last.ret.value.resistances) = Min(last.max_levels, Len(AllLevels.resistances))

\* levels i and i + 1 of a side have one touch count and two prices
TieAt(levels, i) ==
    /\ i + 1 \in DOMAIN levels
    /\ levels[i].touches = levels[i + 1].touches
    /\ levels[i].price # levels[i + 1].price

\* a tie of touch counts on each side, and a level cut off by max_levels
C15_Witness ==
    /\ LevelsReturned
    /\ \E i \in DOMAIN AllLevels.supports : TieAt(AllLevels.supports, i)
    /\ Len(last.ret.value.supports) < Len(AllLevels.supports)
    /\ last.ret.value.supports # <<>>

C15_ResistanceTieReached ==
    /\ LevelsReturned
    /\ \E i \in DOMAIN AllLevels.resistances : TieAt(AllLevels.resistances, i)
    /\ Len(last.ret.value.resistances) < Len(AllLevels.resistances)

\* C16 as stated: among returned supports of equal touch count the lower
\* price comes first, among resistances of equal touch count the higher.
C16_TiesLowerSupportFirst ==
    LevelsReturned =>
        /\ \A i \in DOMAIN last.ret.value.supports :
              TieAt(last.ret.value.supports, i) =>
                  RLt(last.ret.value.supports[i].price, last.ret.value.supports[i + 1].price)
        /\ \A i \in DOMAIN last.ret.value.resistances :
              TieAt(last.ret.value.resistances, i) =>
                  RLt(last.ret.value.resistances[i + 1].price, last.ret.value.resistances[i].price)

\* C16 amended: neighbouring returned levels never rise in touch count;
\* among returned supports of equal touch count the higher price comes
\* first, among resistances of equal touch count the lower.
C16_TiesHigherSupportFirst ==
    LevelsReturned =>
        /\ \A i \in DOMAIN last.ret.value.supports :
              /\ i > 1 => last.ret.value.supports[i - 1].touches >= last.ret.value.supports[i].touches
              /\ TieAt(last.ret.value.supports, i) =>
                    RLt(last.ret.value.supports[i + 1].price, last.ret.value.supports[i].price)
        /\ \A i \in DOMAIN last.ret.value.resistances :
              /\ i > 1 => last.ret.value.resistances[i - 1].touches
                             >= last.ret.value.resistances[i].touches
              /\ TieAt(last.ret.value.resistances, i) =>
                    RLt(last.ret.value.resistances[i].price, last.ret.value.resistances[i + 1].price)

\* two returned supports and two returned resistances tie
C16_Witness ==
    /\ LevelsReturned
    /\ TieAt(last.ret.value.supports, 1)

C16_ResistanceTieReached ==
    /\ LevelsReturned
    /\ TieAt(last.ret.value.resistances, 1)

(***************************************************************************)
(* Determinism: a caller holds a frame and makes the same call twice, with *)
(* the same options, in the same environment, the backends answering the   *)
(* second call as they answered the first.  The first call leaves the      *)
(* frame marked as validated when it passed validation, and the second     *)
(* call runs on that same frame object.                                    *)
(***************************************************************************)
TwiceLengths == {12, 34}

\* valid frames, and frames that fail validation (a duplicate timestamp, an
\* index out of order, missing columns) or hold no numeric value
TwiceFrames ==
    {LongFrame(n, tail, TRUE) : n \in TwiceLengths, tail \in {"flat", "up"}}
    \cup {[LongFrame(12, "up", TRUE) EXCEPT !.index[12] = 11],
          [LongFrame(12, "up", TRUE) EXCEPT !.index[12] = 1],
          [LongFrame(12, "flat", TRUE) EXCEPT !.data["Close"] = [i \in 1..12 |-> NaN]],
          Frame(TRUE, "DatetimeIndex", <<1, 2, 3>>, [c \in {"Open", "Close"} |-> <<2, 2, 2>>], FALSE),
          RegimeFrame(21, 1000, "up"), RegimeFrame(41, 1000, "slow then fast")}

\* the regime statistics are computed in fixed point: analyze_regime is called
\* on the frames too short for its window and on those of large prices, whose
\* returns the fixed point holds; the other calls are made on the other frames
LargePrices(f) == f.data["Close"][1] >= 1000
TwiceCallable(op, f) ==
    IF op = "regime" THEN Len(f.index) <= 20 \/ LargePrices(f) ELSE ~LargePrices(f)

TwiceOps == {"narrate", "summary", "regime", "indicators", "symbolic", "patterns", "levels"}

\* the options and the backend answers of one call of op on f
TwiceInputs(op, f) ==
    LET n == Len(f.index)
        columns == {DefaultArgs, [DefaultArgs EXCEPT !.column = "AdjClose"]}
        flags(a) == Cardinality({k \in Range(IncludeFlags) : a[k]})
        with(exts) == {[a |-> a, ext |-> e] : a \in columns, e \in exts}
        plain(a) == a.column = "Close" /\ a.sparkline_width = 20 /\ a.symbolic_word_size = 16
                    /\ a.symbolic_alphabet_size = 8
    IN  IF ~TwiceCallable(op, f) THEN {}
        ELSE CASE op = "narrate" ->
                    {[a |-> a, ext |-> e] :
                        a \in {b \in NarrateArgs : flags(b) \in {0, 1, 7} /\ plain(b)},
                        e \in NarrateExts(f)}
               [] op = "regime" -> with(RegimeExts(f, 20))
               [] op = "indicators" ->
                    with({[rsi |-> r, macd |-> m] : r \in RsiOutputs(n, 14), m \in MacdOutputs(n)})
               [] op = "symbolic" -> with(TslearnOutputs(f, "Close", 2, 2))
               [] op = "patterns" -> with({e.cdl : e \in NarrateExts(f)})
               [] OTHER -> with({None})

\* what one call gives its caller: the text (with the statistics it renders)
\* or the exception
TwiceOutcome(op, f, in) ==
    LET described(stats, describe(_)) ==
            IF stats.kind = "raise" THEN stats
            ELSE Return([stats |-> stats.value, text |-> describe(stats.value)])
        patterns_text(stats) == describe_patterns(stats) \o describe_candlestick(stats)
        levels_text(stats) == describe_support_resistance_shape
    IN  CASE op = "narrate" -> narrate(f, in.a, in.ext).ret
          [] op = "summary" -> described(analyze_summary(f, in.a.column), describe_summary)
          [] op = "regime" ->
               described(analyze_regime_stats(f, in.a.column, 20, RInt(DefaultTrendThreshold),
                                              in.ext), describe_regime)
          [] op = "indicators" ->
               described(analyze_indicators(f, in.a.column, 14, in.ext), describe_indicators)
          [] op = "symbolic" -> described(sax_encode(f, in.a.column, 2, 2, in.ext), describe_sax)
          [] op = "patterns" -> described(detect_patterns(f, 60, in.ext), patterns_text)
          [] op = "levels" ->
               described(find_support_resistance(f, in.a.column, Rat(1, 100), 2, 5), levels_text)

InitTwice ==
    /\ rpt \in BOOLEAN /\ ta \in BOOLEAN /\ talib = FALSE /\ tslearn \in BOOLEAN
    /\ df \in TwiceFrames
    /\ last = NoCall

\* one call, the first or the second: every analyzer and narrate validate the
\* frame first; the second call runs on the frame object the first call left
Call(op, in) ==
    /\ IF last.op = "none" THEN TRUE ELSE last.calls = 1
    /\ df' = validate_ohlcv_frame(df, REQUIRED_OHLCV_COLUMNS).df
    /\ LET called(out) ==
               [op |-> op, in |-> in, calls |-> IF last.op = "none" THEN 1 ELSE 2,
                marked |-> df.validated,
                first |-> IF last.op = "none" THEN out ELSE last.first, ret |-> out]
       IN  last' = called(TwiceOutcome(op, df, in))
    /\ UNCHANGED <<rpt, ta, talib, tslearn>>

\* any call first, then the same call with the same options and backend answers
NextTwice ==
    \E op \in (IF last.op = "none" THEN TwiceOps ELSE {last.op}) :
        \E in \in (IF last.op = "none" THEN TwiceInputs(op, df) ELSE {last.in}) : Call(op, in)

SpecTwice == InitTwice /\ [][NextTwice]_vars

\* C17: the second of two identical calls gives what the first gave, the text
\* or the exception, also when it runs on the frame the first call marked
C17_SecondCallSameOutcome ==
    (last.op # "none" /\ last.calls = 2) => last.ret = last.first

\* a second call that ran on a marked frame and returned a text
C17_Witness ==
    /\ last.op # "none" /\ last.calls = 2
    /\ last.marked /\ last.ret.kind = "return"

C17_NarrateTwiceReached ==
    /\ last.op = "narrate" /\ last.calls = 2 /\ last.marked /\ last.ret.kind = "return"

C17_RaisesTwiceReached ==
    /\ last.op # "none" /\ last.calls = 2 /\ ~last.marked /\ last.ret.kind = "raise"

C17_MarkedRaisesTwiceReached ==
    /\ last.op # "none" /\ last.calls = 2 /\ last.marked /\ last.ret.kind = "raise"

(***************************************************************************)
(* mcp_api.py: ohlcv_records_to_frame.  A record is a dict, here a function *)
(* from its keys to its values; a timestamp is a text, an OHLCV value a     *)
(* number or None.                                                          *)
(***************************************************************************)
TIMESTAMP_CANDIDATES == <<"timestamp", "datetime", "date", "time">>

COLUMN_CANDIDATES ==
    [Open |-> <<"Open", "open", "OPEN">>, High |-> <<"High", "high", "HIGH">>,
     Low |-> <<"Low", "low", "LOW">>, Close |-> <<"Close", "close", "CLOSE">>,
     Volume |-> <<"Volume", "volume", "VOLUME">>]

NaT == 0

\* pd.to_datetime(text, errors="coerce"): the day of a date text, NaT for a
\* missing cell or a text that is no date
to_datetime(text) ==
    CASE text = "2024-01-02" -> 2
      [] text = "2024-01-03" -> 3
      [] text = "2024-01-04" -> 4
      [] OTHER -> NaT

\* a cell that holds None, or that its record has no key for
NoneCell == -2

\* pd.to_numeric(value, errors="coerce")
to_numeric(value) == IF value = NoneCell THEN NaN ELSE value

\* the first of the candidates that is a column, None without one
FirstCandidate(candidates, columns) ==
    IF \A k \in DOMAIN candidates : candidates[k] \notin columns THEN None
    ELSE Some(candidates[CHOOSE k \in DOMAIN candidates :
                            /\ candidates[k] \in columns
                            /\ \A j \in 1..(k - 1) : candidates[j] \notin columns])

\* _resolve_timestamp_column
resolve_timestamp_column(columns, preferred) ==
    FirstCandidate(<<preferred>> \o SelectSeq(TIMESTAMP_CANDIDATES, LAMBDA name : name # preferred),
                   columns)

\* _resolve_ohlcv_column
resolve_ohlcv_column(columns, target) == FirstCandidate(COLUMN_CANDIDATES[target], columns)

\* pd.DataFrame.from_records(records): the columns are the keys of the
\* records, a cell of a record without the key is missing
RawColumns(records) == UNION {DOMAIN records[i] : i \in DOMAIN records}
RawCell(records, i, column, missing) ==
    IF column \in DOMAIN records[i] THEN records[i][column] ELSE missing

\* a variant of duplicated_keep_last that keeps the first row of a timestamp
duplicated_keep_first(rows, stamp) ==
    [k \in DOMAIN rows |-> \E j \in 1..(k - 1) : stamp[rows[j]] = stamp[rows[k]]]

\* frame.index.duplicated(keep="last"): whether a later row has the timestamp
duplicated_keep_last(rows, stamp) ==
    [k \in DOMAIN rows |-> \E j \in (k + 1)..Len(rows) : stamp[rows[j]] = stamp[rows[k]]]

\* frame[mask]: the rows whose mask holds, in their order
RECURSIVE SelectRows(_, _, _)
SelectRows(rows, mask, k) ==
    IF k > Len(rows) THEN <<>>
    ELSE (IF mask[k] THEN <<rows[k]>> ELSE <<>>) \o SelectRows(rows, mask, k + 1)

\* frame.sort_index(): ascending timestamps, equal timestamps in their order
RECURSIVE sort_index(_, _)
sort_index(rows, stamp) ==
    IF rows = <<>> THEN <<>>
    ELSE LET k == CHOOSE i \in DOMAIN rows :
                     /\ \A j \in DOMAIN rows : stamp[rows[i]] <= stamp[rows[j]]
                     /\ \A j \in 1..(i - 1) : stamp[rows[j]] # stamp[rows[i]]
         IN  <<rows[k]>> \o sort_index(SubSeq(rows, 1, k - 1) \o SubSeq(rows, k + 1, Len(rows)),
                                       stamp)

ohlcv_records_to_frame(records, timestamp_field, deduplicate_timestamps, sort_index_flag) ==
    LET columns == RawColumns(records)
        timestamp_column == resolve_timestamp_column(columns, timestamp_field)
        timestamp == [i \in DOMAIN records |-> to_datetime(RawCell(records, i, timestamp_column[1], ""))]
        all == [i \in DOMAIN records |-> i]
        parsed == SelectRows(all, [i \in DOMAIN records |-> timestamp[i] # NaT], 1)
        deduplicated ==
            IF deduplicate_timestamps
            THEN LET dup == duplicated_keep_last(parsed, timestamp)
                 IN  SelectRows(parsed, [k \in DOMAIN parsed |-> ~dup[k]], 1)
            ELSE parsed
        rows == IF sort_index_flag THEN sort_index(deduplicated, timestamp) ELSE deduplicated
        source(target) == resolve_ohlcv_column(columns, target)
        canonical == [target \in Range(REQUIRED_OHLCV_COLUMNS) |->
                        [k \in DOMAIN rows |-> to_numeric(RawCell(records, rows[k], source(target)[1], NoneCell))]]
    IN  IF records = <<>> THEN Raise("ValidationError", "At least one OHLCV record is required.")
        ELSE IF timestamp_column = None
        THEN Raise("ValidationError", "Could not find a timestamp column.")
        ELSE IF \A i \in DOMAIN records : timestamp[i] = NaT
        THEN Raise("ValidationError", "Timestamp column contains no parseable datetime values.")
        ELSE IF \E target \in Range(REQUIRED_OHLCV_COLUMNS) : source(target) = None
        THEN Raise("ValidationError", "Input records are missing required OHLCV field")
        ELSE Return(Frame(TRUE, "DatetimeIndex", [k \in DOMAIN rows |-> timestamp[rows[k]]],
                          canonical, FALSE))

(***************************************************************************)
(* The records specification: a tool handler holds a list of records and   *)
(* converts it once.  Record i carries the value i in each of its fields,   *)
(* in lower case, in the canonical spelling of Close, without a volume, or  *)
(* with a close of None.                                                    *)
(***************************************************************************)
MaxRecords == 3
StampTexts == {"n/a", "2024-01-02", "2024-01-03"}
RecordStyles == {"lower", "canonical close", "no volume", "patchy"}

OhlcvRecord(i, key, text, style) ==
    LET close == IF style = "canonical close" THEN "Close" ELSE "close"
        keys == {key, "open", "high", "low", close}
                \cup (IF style = "no volume" THEN {} ELSE {"volume"})
    IN  [k \in keys |-> IF k = key THEN text
                        ELSE IF k = close /\ style = "patchy" THEN NoneCell ELSE i]

RecordLists ==
    {[i \in DOMAIN cells |-> OhlcvRecord(i, key, cells[i][1], cells[i][2])] :
        key \in {"timestamp", "date"},
        cells \in SeqsUpTo(StampTexts \X RecordStyles, MaxRecords)}

\* df holds the list of records the handler received
InitRecords ==
    /\ rpt = FALSE /\ ta = FALSE /\ talib = FALSE /\ tslearn = FALSE
    /\ df \in RecordLists
    /\ last = NoCall

\* ohlcv_records_to_frame(records, deduplicate_timestamps=..., sort_index=...)
OhlcvRecordsToFrame(deduplicate_timestamps, sort_index_flag) ==
    /\ last.op = "none"
    /\ last' = [op |-> "ohlcv_records_to_frame", records |-> df,
                deduplicate_timestamps |-> deduplicate_timestamps, sort_index |-> sort_index_flag,
                ret |-> ohlcv_records_to_frame(df, "timestamp", deduplicate_timestamps,
                                               sort_index_flag)]
    /\ UNCHANGED <<rpt, ta, talib, tslearn, df>>

NextRecords == \E d \in BOOLEAN, s \in BOOLEAN : OhlcvRecordsToFrame(d, s)

SpecRecords == InitRecords /\ [][NextRecords]_vars

\* the timestamp text of a record of RecordLists
TimestampText(r) == IF "timestamp" \in DOMAIN r THEN r["timestamp"] ELSE r["date"]

\* the input has a parseable timestamp and every OHLCV field under one of its names
Parseable(records) == \E i \in DOMAIN records : TimestampText(records[i]) \in StampTexts \ {"n/a"}
Resolvable(records) ==
    \A target \in Range(REQUIRED_OHLCV_COLUMNS) :
        \E i \in DOMAIN records, k \in DOMAIN COLUMN_CANDIDATES[target] :
            COLUMN_CANDIDATES[target][k] \in DOMAIN records[i]

DefaultConversion ==
    /\ last.op = "ohlcv_records_to_frame"
    /\ last.deduplicate_timestamps /\ last.sort_index
    /\ Parseable(last.records) /\ Resolvable(last.records)

\* the record a row of the frame was read from: the latest one with the timestamp
LatestWith(records, day) ==
    CHOOSE i \in DOMAIN records :
        /\ to_datetime(TimestampText(records[i])) = day
        /\ \A j \in (i + 1)..Len(records) : to_datetime(TimestampText(records[j])) # day

\* C18: with the default options a record list with a parseable timestamp and
\* the five fields gives a frame with the five canonical columns and a
\* strictly increasing index of the parseable timestamps, each row read from
\* the latest record of its timestamp, and the frame passes validate_ohlcv_frame
C18_RecordsGiveValidFrame ==
    DefaultConversion =>
        /\ last.ret.kind = "return"
        /\ LET f == last.ret.value
               days == {to_datetime(t) : t \in StampTexts} \ {NaT}
               present == {d \in days : \E i \in DOMAIN last.records :
                              to_datetime(TimestampText(last.records[i])) = d}
           IN  /\ f.isDataFrame /\ f.kind = "DatetimeIndex"
               /\ Columns(f) = Range(REQUIRED_OHLCV_COLUMNS)
               /\ \A i, j \in DOMAIN f.index : i < j => f.index[i] < f.index[j]
               /\ Range(f.index) = present
               /\ \A k \in DOMAIN f.index :
                     f.data["Open"][k] = LatestWith(last.records, f.index[k])
               /\ validate_ohlcv_frame(f, REQUIRED_OHLCV_COLUMNS).ret = Return(None)

\* a timestamp given twice, its latest record before an earlier record's day
C18_Witness ==
    /\ DefaultConversion
    /\ \E i, j \in DOMAIN last.records :
          i < j /\ TimestampText(last.records[i]) = TimestampText(last.records[j])
    /\ Len(last.ret.value.index) = 2
    /\ last.ret.value.data["Open"][1] > last.ret.value.data["Open"][2]

C18_UnparseableDroppedReached ==
    /\ DefaultConversion
    /\ \E i \in DOMAIN last.records : TimestampText(last.records[i]) = "n/a"
    /\ Len(last.ret.value.index) = 2

C18_UnsortedRejectedReached ==
    /\ last.op = "ohlcv_records_to_frame" /\ ~last.sort_index
    /\ last.ret.kind = "return"
    /\ validate_ohlcv_frame(last.ret.value, REQUIRED_OHLCV_COLUMNS).ret.kind = "raise"

C18_MissingFieldReached ==
    /\ last.op = "ohlcv_records_to_frame" /\ ~Resolvable(last.records)
    /\ last.ret.kind = "raise"

(***************************************************************************)
(* The concurrent validation specification: two callers hold the same      *)
(* frame and call validate_ohlcv_frame, each with its required_columns;    *)
(* nothing else changes the frame.  A call reads the marker (ohlcv.py:36), *)
(* runs its checks (ohlcv.py:39-63) and writes the marker (ohlcv.py:65);   *)
(* the steps of the two calls interleave in any order.  last holds the     *)
(* position of each call (pc), what it returned or raised (ret), the frame  *)
(* the calls started from (frame) and the writes made to the frame.        *)
(***************************************************************************)
Callers == {1, 2}

InitConcurrent ==
    /\ rpt = FALSE /\ ta = FALSE /\ talib = FALSE /\ tslearn = FALSE
    /\ df \in ConstructedFrames \cup {NotAFrame}
    /\ \E required \in [Callers -> RequiredChoices] :
          last = [op |-> "concurrent", required |-> required, frame |-> df,
                  pc |-> [p \in Callers |-> "marker"],
                  ret |-> [p \in Callers |-> Return(None)], writes |-> <<>>]

\* ohlcv.py:36-37
ReadMarker(p) ==
    /\ last.pc[p] = "marker"
    /\ last' = [last EXCEPT !.pc[p] = IF df.isDataFrame /\ df.validated THEN "done" ELSE "checks"]
    /\ UNCHANGED <<rpt, ta, talib, tslearn, df>>

\* ohlcv.py:39-63
RunChecks(p) ==
    /\ last.pc[p] = "checks"
    /\ LET checked == validate_ohlcv_frame_nomarker(df, last.required[p]).ret
       IN  last' = [last EXCEPT !.pc[p] = IF checked.kind = "raise" THEN "done" ELSE "write",
                                !.ret[p] = checked]
    /\ UNCHANGED <<rpt, ta, talib, tslearn, df>>

\* ohlcv.py:65
WriteMarker(p) ==
    /\ last.pc[p] = "write"
    /\ df' = [df EXCEPT !.validated = TRUE]
    /\ last' = [last EXCEPT !.pc[p] = "done",
                            !.writes = Append(@, [by |-> p, attr |-> "validated", value |-> TRUE])]
    /\ UNCHANGED <<rpt, ta, talib, tslearn>>

NextConcurrent ==
    \E p \in Callers : ReadMarker(p) \/ RunChecks(p) \/ WriteMarker(p)

SpecConcurrent == InitConcurrent /\ [][NextConcurrent]_vars

\* the outcome of caller p's call had it run alone on the frame
Alone(p) == validate_ohlcv_frame(last.frame, last.required[p]).ret

\* every write sets the marker to true, and its call passed its checks
WritesOnlyTrueAfterPassing ==
    \A k \in DOMAIN last.writes :
        /\ last.writes[k].attr = "validated" /\ last.writes[k].value = TRUE
        /\ validate_ohlcv_frame_nomarker(last.frame, last.required[last.writes[k].by]).ret.kind
              = "return"

\* a call that raised wrote nothing
RaisingCallsWriteNothing ==
    \A p \in Callers :
        (last.pc[p] = "done" /\ last.ret[p].kind = "raise")
            => \A k \in DOMAIN last.writes : last.writes[k].by # p

\* C19: in every interleaving of the calls, a finished call has the outcome
\* it has alone, the marker is written only with true and only by a call
\* whose checks passed, and a call that raises writes nothing
C19_MarkerRaceTolerant ==
    last.op = "concurrent" =>
        /\ \A p \in Callers : last.pc[p] = "done" => last.ret[p] = Alone(p)
        /\ WritesOnlyTrueAfterPassing
        /\ RaisingCallsWriteNothing

\* the writes are as the claim has them, in every interleaving
MarkerWrites ==
    last.op = "concurrent" => (WritesOnlyTrueAfterPassing /\ RaisingCallsWriteNothing)

\* calls with the same required_columns end as they end alone
SameRequiredSameOutcome ==
    (last.op = "concurrent" /\ last.required[1] = last.required[2])
        => \A p \in Callers : last.pc[p] = "done" => last.ret[p] = Alone(p)

\* both calls passed their checks before either wrote, and both wrote
BothWroteReached ==
    /\ last.op = "concurrent" /\ Len(last.writes) = 2
    /\ \A p \in Callers : last.pc[p] = "done"

\* a call returned on the marker of the other, on a frame its own checks reject
StaleMarkerReached ==
    /\ last.op = "concurrent"
    /\ \E p \in Callers : last.pc[p] = "done" /\ last.ret[p].kind = "return"
                          /\ Alone(p).kind = "raise"

(***************************************************************************)
(* C20: analyze_regime takes the change-point path exactly when ruptures   *)
(* is present and there are at least max(window, 40) returns, the rolling  *)
(* path otherwise, and raises ValidationError without taking either when   *)
(* window < 5 or there are fewer than window returns.                      *)
(***************************************************************************)
ReturnSamples == Len(NumericValues(df, "Close")) - 1

C20_ExactlyOnePath ==
    last.op = "analyze_regime" =>
        IF last.window < 5 \/ ReturnSamples < last.window
        THEN /\ last.ret.kind = "raise" /\ last.ret.exc = "ValidationError"
        ELSE /\ last.ret.kind = "return"
             /\ last.ret.value.path \in {"ruptures", "rolling"}
             /\ last.ret.value.path = "ruptures"
                   <=> (rpt /\ ReturnSamples >= 40 /\ ReturnSamples >= last.window)

\* the change-point path on the fewest returns it takes
C20_Witness ==
    /\ last.op = "analyze_regime" /\ last.ret.kind = "return"
    /\ last.ret.value.path = "ruptures" /\ ReturnSamples = 40 /\ last.window = 20

C20_RollingBelowFortyReached ==
    /\ last.op = "analyze_regime" /\ last.ret.kind = "return" /\ rpt
    /\ last.ret.value.path = "rolling" /\ ReturnSamples = 39

C20_RollingWithoutBackendReached ==
    /\ last.op = "analyze_regime" /\ last.ret.kind = "return" /\ ~rpt
    /\ last.ret.value.path = "rolling" /\ ReturnSamples >= 40

C20_LargeWindowReached ==
    /\ last.op = "analyze_regime" /\ last.ret.kind = "return"
    /\ last.ret.value.path = "ruptures" /\ last.window = 50 /\ ReturnSamples = 50

C20_TooFewReturnsReached ==
    /\ last.op = "analyze_regime" /\ last.ret.kind = "raise"
    /\ last.window >= 5 /\ ReturnSamples = last.window - 1

C20_SmallWindowReached ==
    /\ last.op = "analyze_regime" /\ last.ret.kind = "raise" /\ last.window < 5

(***************************************************************************)
(* C21: analyze_indicators takes RSI and MACD from one source each.  With   *)
(* the backend present and its series usable (not None, not empty, not all  *)
(* NaN, the three MACD columns present) the values reported are the         *)
(* backend's latest non-NaN values, the MACD state is classified from the   *)
(* backend's MACD and signal lines, and compute_rsi, compute_macd and       *)
(* _classify_macd are not invoked; without the backend or without a usable  *)
(* series the in-house formulas give the values.                            *)
(***************************************************************************)
BackendValue(col) == Rat(Last(DropNa(col)), 10)

C21_OneSourceEach ==
    (last.op = "analyze_indicators" /\ last.column = "Close") =>
        LET values == NumericValues(df, "Close")
            rsi_backend == ta /\ UsableRsi(last.ext)
            macd_backend == ta /\ UsableMacd(last.ext)
            stats == last.ret.value
            lines == classify_macd_lines(TenthsLine(last.ext.macd[1].macd),
                                         TenthsLine(last.ext.macd[1].signal))
            inhouse == macd_fallback(values).value
        IN  /\ rsi_backend <=> "compute_rsi" \notin last.invoked
            /\ macd_backend => last.invoked \cap {"compute_macd", "_classify_macd"} = {}
            /\ (~macd_backend /\ last.ret.kind = "return")
                  => {"compute_macd", "_classify_macd"} \subseteq last.invoked
            /\ last.ret.kind = "return" =>
                  /\ stats.rsi_value = IF rsi_backend THEN BackendValue(last.ext.rsi[1])
                                       ELSE compute_rsi(values, last.rsi_period).value
                  /\ IF macd_backend
                     THEN /\ stats.macd_value = BackendValue(last.ext.macd[1].macd)
                          /\ stats.macd_signal = BackendValue(last.ext.macd[1].signal)
                          /\ stats.macd_histogram = BackendValue(last.ext.macd[1].hist)
                          /\ stats.macd_state = lines.state
                          /\ stats.crossover_days_ago = lines.crossover_days
                     ELSE /\ stats.macd_value = inhouse.macd
                          /\ stats.macd_signal = inhouse.signal
                          /\ stats.macd_histogram = inhouse.histogram
                          /\ stats.macd_state = inhouse.state
                          /\ stats.crossover_days_ago = inhouse.crossover_days

\* both taken from the backend, on a frame too short for the in-house formulas
C21_Witness ==
    /\ last.op = "analyze_indicators" /\ last.column = "Close" /\ last.ret.kind = "return"
    /\ ta /\ UsableRsi(last.ext) /\ UsableMacd(last.ext)
    /\ last.invoked = {}
    /\ Len(NumericValues(df, "Close")) = 34
    /\ last.ret.value.macd_state = <<"bearish">>

\* RSI from the backend, MACD from the in-house formulas
C21_MixedSourcesReached ==
    /\ last.op = "analyze_indicators" /\ last.column = "Close" /\ last.ret.kind = "return"
    /\ ta /\ UsableRsi(last.ext) /\ ~UsableMacd(last.ext)
    /\ last.invoked = {"compute_macd", "_classify_macd"}

\* the backend present and nothing usable: the in-house formulas
C21_FallbackReached ==
    /\ last.op = "analyze_indicators" /\ last.column = "Close" /\ last.ret.kind = "return"
    /\ ta /\ ~UsableRsi(last.ext) /\ ~UsableMacd(last.ext)
    /\ last.invoked = {"compute_rsi", "compute_macd", "_classify_macd"}

C21_NoBackendReached ==
    /\ last.op = "analyze_indicators" /\ last.column = "Close" /\ last.ret.kind = "return"
    /\ ~ta /\ last.invoked = {"compute_rsi", "compute_macd", "_classify_macd"}

(***************************************************************************)
(* C22: detect_candlestick_pattern returns the backend's result without    *)
(* running the in-house scan whenever the backend reports a hit; whenever  *)
(* the backend is absent or reports no hit (None, empty, or all-zero       *)
(* scores), the result is exactly the in-house scan's result.              *)
(***************************************************************************)
\* the backend was asked and its frame holds a non-zero score
BackendHit ==
    /\ "_detect_candlestick_with_pandas_ta" \in last.ran
    /\ last.cdl # None
    /\ \E i \in DOMAIN last.cdl[1].rows : \E k \in DOMAIN last.cdl[1].rows[i] :
          last.cdl[1].rows[i][k] # NaN /\ last.cdl[1].rows[i][k] # 0

BackendOrInhouse ==
    IF BackendHit
    THEN /\ last.ret = Return(detect_candlestick_with_pandas_ta(df, last.cdl))
         /\ "_detect_candlestick_inhouse" \notin last.ran
    ELSE last.ret = detect_candlestick_inhouse(df)

C22_BackendElseInhouse ==
    last.op = "detect_candlestick_pattern" => BackendOrInhouse

\* C22 as it holds: the same for frames that have Open and Close columns and
\* at least 2 rows; a frame without Open or Close raises ValidationError and
\* a frame of fewer than 2 rows returns (None, None) before either detector
\* is called, also where the in-house scan would raise for a frame without
\* High and Low.
C22_BackendElseInhouseFromTwoRows ==
    last.op = "detect_candlestick_pattern" =>
        IF ~({"Open", "Close"} \subseteq Columns(df))
        THEN last.ret.kind = "raise" /\ last.ret.exc = "ValidationError" /\ last.ran = {}
        ELSE IF Len(df.index) < 2
        THEN last.ret = Return([pattern |-> None, date |-> None]) /\ last.ran = {}
        ELSE BackendOrInhouse

\* the backend's hit is returned where the in-house scan holds another result
C22_Witness ==
    /\ last.op = "detect_candlestick_pattern" /\ BackendHit
    /\ last.ret.kind = "return" /\ last.ret.value.pattern = Some("Doji")
    /\ last.ret # detect_candlestick_inhouse(df)
    /\ detect_candlestick_inhouse(df).value.pattern # None

\* an all-zero frame of scores: the in-house scan's pattern
C22_AllZeroReached ==
    /\ last.op = "detect_candlestick_pattern" /\ ta /\ ~BackendHit
    /\ last.cdl # None /\ last.cdl[1].rows # <<>>
    /\ last.ran = {"_detect_candlestick_with_pandas_ta", "_detect_candlestick_inhouse"}
    /\ last.ret.kind = "return" /\ last.ret.value.pattern # None

\* one row without High and Low: (None, None) where the scan would raise
C22_OneRowWithoutHighLowReached ==
    /\ last.op = "detect_candlestick_pattern" /\ Len(df.index) = 1
    /\ Columns(df) = {"Open", "Close", "Volume"}
    /\ last.ret = Return([pattern |-> None, date |-> None])
    /\ detect_candlestick_inhouse(df).kind = "raise"

\* two rows without High and Low: the backend is not asked, the scan raises
C22_TwoRowsWithoutHighLowReached ==
    /\ last.op = "detect_candlestick_pattern" /\ Len(df.index) = 2 /\ ta
    /\ Columns(df) = {"Open", "Close", "Volume"}
    /\ last.ran = {"_detect_candlestick_inhouse"} /\ last.ret.kind = "raise"

(***************************************************************************)
(* The MACD-lines specification: a caller holds a MACD line and a signal   *)
(* line of equal length, in tenths with NaN cells in the signal line as    *)
(* its warm-up leaves them, and requests _classify_macd_lines.             *)
(***************************************************************************)
MaxLineLen == 4    \* samples of the two lines

LineTenths == -2..2

MacdLines ==
    UNION {[macd_line : [1..n -> {Rat(t, 10) : t \in LineTenths}],
            signal_line : [1..n -> {RInt(0), RNaN}]] : n \in 0..MaxLineLen}

InitMacdLines ==
    /\ ta = FALSE /\ talib = FALSE /\ rpt = FALSE /\ tslearn = FALSE
    /\ df \in MacdLines
    /\ last = NoCall

\* _classify_macd_lines(macd_line, signal_line)
ClassifyMacdLines ==
    /\ last.op = "none"
    /\ last' = [op |-> "classify_macd_lines",
                ret |-> Return(classify_macd_lines(df.macd_line, df.signal_line))]
    /\ UNCHANGED <<rpt, ta, talib, tslearn, df>>

NextMacdLines ==
    \/ ClassifyMacdLines
    \/ Finish

SpecMacdLines == InitMacdLines /\ [][NextMacdLines]_vars

\* d = line - signal over the samples where both lines hold a number
DiffSeries ==
    LET rows == SelectSeq([i \in DOMAIN df.macd_line |-> i],
                          LAMBDA i : df.macd_line[i] # RNaN /\ df.signal_line[i] # RNaN)
    IN  [k \in DOMAIN rows |-> RSub(df.macd_line[rows[k]], df.signal_line[rows[k]])]

\* d[i] and d[i - 1] are both non-zero and of opposite signs
OppositeSigns(d, i) ==
    \/ d[i].n > 0 /\ d[i - 1].n < 0
    \/ d[i].n < 0 /\ d[i - 1].n > 0

(***************************************************************************)
(* C23: over d = line - signal, the direction is "bullish" iff the latest  *)
(* d >= 0, else "bearish".  If some i >= 1 has d[i] and d[i-1] both        *)
(* non-zero and of opposite signs, the state is the bare direction and     *)
(* crossover_days_ago is the number of samples after the largest such i;   *)
(* zero samples never count as a flip.  Otherwise crossover_days_ago is    *)
(* None and the state is the direction plus "widening" when                *)
(* |d[last]| >= |d[last-1]|, else "narrowing".  The direction is stated    *)
(* for a d of at least one sample, the comparison for at least two.        *)
(***************************************************************************)
C23_MacdStateFromDiff ==
    (last.op = "classify_macd_lines" /\ Len(DiffSeries) >= 1) =>
        LET d == DiffSeries
            n == Len(d)
            direction == IF d[n].n >= 0 THEN "bullish" ELSE "bearish"
            flips == {i \in 2..n : OppositeSigns(d, i)}
            result == last.ret.value
        IN  /\ result.state[1] = direction
            /\ IF flips # {}
               THEN /\ result.state = <<direction>>
                    /\ \E i \in flips :
                          /\ \A j \in flips : j <= i
                          /\ result.crossover_days = Some(n - i)
               ELSE /\ result.crossover_days = None
                    /\ n >= 2 =>
                          result.state = <<direction,
                                           IF RLe(RAbs(d[n - 1]), RAbs(d[n]))
                                           THEN "widening" ELSE "narrowing">>

\* a flip two samples before the latest, with a zero sample after it that
\* is no flip of its own
C23_Witness ==
    /\ last.op = "classify_macd_lines" /\ Len(DiffSeries) = 4
    /\ DiffSeries[1].n < 0 /\ DiffSeries[2].n > 0
    /\ DiffSeries[3].n = 0 /\ DiffSeries[4].n > 0
    /\ last.ret.value = [state |-> <<"bullish">>, crossover_days |-> Some(2)]

\* the signs differ across a zero sample only: no flip
C23_ZeroBetweenReached ==
    /\ last.op = "classify_macd_lines" /\ Len(DiffSeries) = 3
    /\ DiffSeries[1].n < 0 /\ DiffSeries[2].n = 0 /\ DiffSeries[3].n > 0
    /\ last.ret.value = [state |-> <<"bullish", "widening">>, crossover_days |-> None]

C23_NarrowingReached ==
    /\ last.op = "classify_macd_lines"
    /\ last.ret.value = [state |-> <<"bearish", "narrowing">>, crossover_days |-> None]

\* a flip at the latest sample
C23_FlipAtLatestReached ==
    /\ last.op = "classify_macd_lines"
    /\ last.ret.value = [state |-> <<"bearish">>, crossover_days |-> Some(0)]

\* one aligned sample: nothing to compare with, reported as widening
C23_SingleSampleReached ==
    /\ last.op = "classify_macd_lines" /\ Len(DiffSeries) = 1 /\ Len(df.macd_line) = 3
    /\ last.ret.value = [state |-> <<"bearish", "widening">>, crossover_days |-> None]

\* no aligned sample: neutral
C23_NeutralReached ==
    /\ last.op = "classify_macd_lines" /\ Len(DiffSeries) = 0 /\ Len(df.macd_line) = 2
    /\ last.ret.value = [state |-> <<"neutral">>, crossover_days |-> None]

(***************************************************************************)
(* C24: on the change-point path analyze_regime fits the penalized         *)
(* change-point model with minimum segment size equal to the window        *)
(* parameter, for every allowed window (>= 5), and reports as start date   *)
(* the first timestamp of the last detected segment.                       *)
(***************************************************************************)
ChangePointPath ==
    /\ last.op = "analyze_regime" /\ last.ret.kind = "return"
    /\ last.ret.value.path = "ruptures"

\* the start date is the timestamp of the first return of the last segment
StartsAtLastSegment ==
    LET index == Tail(NumericIndex(df, "Close"))
        k == Len(last.bkpts)
    IN  last.ret.value.start_date = index[(IF k > 1 THEN last.bkpts[k - 1] ELSE 0) + 1]

C24_MinSizeIsWindow ==
    ChangePointPath =>
        /\ last.window >= 5
        /\ last.pelt = Some([model |-> "rbf", min_size |-> last.window])
        /\ StartsAtLastSegment

\* C24 as it holds: the minimum segment size is max(10, window), which is
\* the window from 10 on.
C24_MinSizeIsWindowFromTen ==
    ChangePointPath =>
        /\ last.window >= 5
        /\ last.pelt = Some([model |-> "rbf",
                             min_size |-> IF last.window >= 10 THEN last.window ELSE 10])
        /\ StartsAtLastSegment

\* window 5 with a break found: segments of at least 10 returns
C24_Witness ==
    /\ ChangePointPath /\ last.window = 5 /\ Len(last.bkpts) = 2
    /\ last.pelt[1].min_size = 10
    /\ last.ret.value.start_date = NumericIndex(df, "Close")[last.bkpts[1] + 2]

C24_WindowTwentyReached ==
    /\ ChangePointPath /\ last.window = 20 /\ Len(last.bkpts) = 2
    /\ last.pelt[1].min_size = 20

\* no break found: the regime starts with the first return
C24_NoBreakReached ==
    /\ ChangePointPath /\ Len(last.bkpts) = 1
    /\ last.ret.value.start_date = NumericIndex(df, "Close")[2]

(***************************************************************************)
(* C25: on the rolling path the reported (trend, volatility) pair is the   *)
(* label pair of the last rolling sample, and start_date is the timestamp  *)
(* of the earliest rolling sample of the maximal trailing run of samples   *)
(* that carry this pair: every rolling sample from start_date to the end   *)
(* carries it and the sample just before start_date, if any, does not.     *)
(***************************************************************************)
RollingPath ==
    /\ last.op = "analyze_regime" /\ last.ret.kind = "return"
    /\ last.ret.value.path = "rolling"

RollingSamples ==
    rolling_labels(PctChangeScaled(NumericValues(df, "Close")), last.window,
                   RInt(DefaultTrendThreshold))

\* the rolling sample that carries the reported start date
StartSample ==
    CHOOSE k \in DOMAIN RollingSamples :
        Tail(NumericIndex(df, "Close"))[k + last.window - 1] = last.ret.value.start_date

C25_TrailingRunStart ==
    RollingPath =>
        LET labels == RollingSamples
            count == Len(labels)
            index == Tail(NumericIndex(df, "Close"))
        IN  /\ <<last.ret.value.trend_label, last.ret.value.volatility_label>> = labels[count]
            /\ \E k \in 1..count :
                  /\ last.ret.value.start_date = index[k + last.window - 1]
                  /\ \A j \in k..count : labels[j] = labels[count]
                  /\ k > 1 => labels[k - 1] # labels[count]

\* the run starts after a sample of other labels, and the pair reported was
\* carried by a sample before that one as well
C25_Witness ==
    /\ RollingPath
    /\ StartSample > 2
    /\ \E j \in 1..(StartSample - 2) : RollingSamples[j] = RollingSamples[Len(RollingSamples)]

\* every rolling sample carries the pair: the regime starts at the first
C25_WholeSeriesReached ==
    /\ RollingPath /\ Len(RollingSamples) > 1 /\ StartSample = 1

\* the last sample alone carries the pair
C25_LastSampleOnlyReached ==
    /\ RollingPath /\ Len(RollingSamples) > 1 /\ StartSample = Len(RollingSamples)

(***************************************************************************)
(* C26: for every result of find_support_resistance, every returned        *)
(* support price is <= the latest price of the series and every returned   *)
(* resistance price is >= the latest price.                                *)
(***************************************************************************)
\* a level price against a cell, in float order
PriceLe(price, cell) ==
    IF price = RInf THEN cell = Inf ELSE cell = Inf \/ RLe(price, RInt(cell))

PriceGe(price, cell) ==
    IF price = RInf THEN TRUE ELSE cell # Inf /\ RLe(RInt(cell), price)

LevelsOnTheirSide ==
    LET current_price == Last(NumericValues(df, last.column))
        stats == last.ret.value
    IN  /\ \A k \in DOMAIN stats.supports : PriceLe(stats.supports[k].price, current_price)
        /\ \A k \in DOMAIN stats.resistances : PriceGe(stats.resistances[k].price, current_price)

C26_LevelsNeverCrossLatest ==
    LevelsReturned => LevelsOnTheirSide

\* the same for the series whose cluster sums stay below the largest float
LevelsOnTheirSideWithoutOverflow ==
    (LevelsReturned /\ Huge \notin Range(df.data["Close"])) => LevelsOnTheirSide

\* a support below and a resistance above the latest price, each the mean
\* of a cluster of two values
LevelsOnTheirSideReached ==
    /\ LevelsReturned /\ Huge \notin Range(df.data["Close"])
    /\ \E k \in DOMAIN last.ret.value.supports :
          /\ last.ret.value.supports[k].price.d = 2
          /\ last.ret.value.supports[k].price # RInt(Last(df.data["Close"]))
    /\ \E k \in DOMAIN last.ret.value.resistances :
          /\ last.ret.value.resistances[k].price.d = 2
          /\ last.ret.value.resistances[k].price # RInt(Last(df.data["Close"]))

(***************************************************************************)
(* C27: for every level returned by find_support_resistance, the touch     *)
(* count equals the number of samples of the whole price series that lie   *)
(* within tolerance of the level price: the count of touching local        *)
(* extrema never exceeds that band count.                                  *)
(***************************************************************************)
\* max(current_price * tolerance_ratio, 1e-9) of the call
LevelTolerance ==
    LET current_price == Last(NumericValues(df, last.column))
    IN  IF current_price = Inf THEN RInf
        ELSE RMax(RMul(RInt(current_price), last.tolerance_ratio), Tiny)

BandCount(level) == Touches(NumericValues(df, last.column), level.price, LevelTolerance)

C27_TouchesAreBandCount ==
    LevelsReturned =>
        LET stats == last.ret.value
            prices == NumericValues(df, last.column)
            extrema(lessEqual) ==
                LET indices == ArgRelExtrema(prices, lessEqual, last.extrema_order)
                IN  [k \in DOMAIN indices |-> prices[indices[k]]]
        IN  /\ \A k \in DOMAIN stats.supports :
                  /\ stats.supports[k].touches = BandCount(stats.supports[k])
                  /\ Touches(extrema(TRUE), stats.supports[k].price, LevelTolerance)
                        <= BandCount(stats.supports[k])
            /\ \A k \in DOMAIN stats.resistances :
                  /\ stats.resistances[k].touches = BandCount(stats.resistances[k])
                  /\ Touches(extrema(FALSE), stats.resistances[k].price, LevelTolerance)
                        <= BandCount(stats.resistances[k])

\* a level touched by more samples than extrema
C27_Witness ==
    /\ LevelsReturned /\ last.extrema_order = 1 /\ last.column = "Close"
    /\ \E k \in DOMAIN last.ret.value.supports :
          LET level == last.ret.value.supports[k]
              prices == NumericValues(df, "Close")
              indices == ArgRelExtrema(prices, TRUE, 1)
          IN  /\ level.touches >= 2
              /\ Touches([i \in DOMAIN indices |-> prices[indices[i]]], level.price,
                         LevelTolerance) < level.touches

\* a level of price +inf: no sample within tolerance, touch count 0
C27_NoTouchReached ==
    /\ LevelsReturned
    /\ \E k \in DOMAIN last.ret.value.resistances :
          last.ret.value.resistances[k] = [price |-> RInf, touches |-> 0]

(***************************************************************************)
(* C28: narrate computes the base summary on every call that passes the    *)
(* configuration checks, also when include_summary and include_sparkline   *)
(* are both false; a failure of the summary computation (the selected      *)
(* column has no numeric values) aborts narrate even when the only enabled *)
(* sections use neither the summary nor the selected column.               *)
(***************************************************************************)
PassedConfigurationChecks ==
    /\ NarrateCalled /\ FramePassed
    /\ last.a.column \in Columns(df) /\ AnyFlag(last.a)

C28_SummaryAlwaysComputed ==
    PassedConfigurationChecks =>
        /\ last.invoked # <<>> /\ Head(last.invoked) = "analyze_summary"
        /\ analyze_summary(df, last.a.column).kind = "raise" =>
              /\ last.ret = analyze_summary(df, last.a.column)
              /\ last.invoked = <<"analyze_summary">>
              /\ last.handed = None

\* patterns alone enabled on a frame whose Close holds no number: the
\* patterns would be found, the summary aborts the call
C28_Witness ==
    /\ PassedConfigurationChecks
    /\ \A i \in DOMAIN IncludeFlags : last.a[IncludeFlags[i]] <=> IncludeFlags[i] = "include_patterns"
    /\ last.a.column = "Close" /\ NumericValues(df, "Close") = <<>>
    /\ detect_patterns(df, 60, last.ext.cdl).kind = "return"
    /\ last.ret = Raise("ValidationError", "Column contains no numeric values.")

\* the summary is computed and not used: patterns alone, narration returned
C28_UnusedSummaryReached ==
    /\ PassedConfigurationChecks
    /\ ~last.a.include_summary /\ ~last.a.include_sparkline /\ last.a.include_patterns
    /\ last.ret.kind = "return"
    /\ last.invoked = <<"analyze_summary", "detect_patterns">>

(***************************************************************************)
(* C29: with digit_level=true the text narrate returns has exactly two     *)
(* lines: the marker line "<digits-split>" and one line in which every     *)
(* digit is a token of its own and the section texts follow each other in  *)
(* the order of the sections, separated by single blanks; the line breaks  *)
(* the serializer put between the sections are gone.                       *)
(***************************************************************************)
\* the pieces of the sections handed to the serializer, in their order; in
\* a keyed format each section starts with its key
PiecesOfSections(sections, output_format) ==
    LET key(k) == IF output_format = "markdown_kv" THEN <<"**" \o sections[k].key \o "**:">>
                  ELSE IF output_format = "toon" THEN <<sections[k].key \o ":">>
                  ELSE <<>>
    IN  Flatten([k \in DOMAIN sections |-> key(k) \o Flatten(Flatten(sections[k].value))])

DigitLevelReturned ==
    NarrateCalled /\ last.a.digit_level /\ last.ret.kind = "return"

C29_DigitLevelTwoLines ==
    DigitLevelReturned =>
        LET text == last.ret.value
        IN  /\ Len(text) = 2
            /\ text[1] = <<Word("<digits-split>")>>
            /\ \A k \in DOMAIN text[2] : Len(text[2][k]) = 1
            /\ Flatten(text[2]) = PiecesOfSections(last.handed[1], last.a.output_format)

\* the serializer gave more than two lines, some with digits inside a token
C29_Witness ==
    /\ DigitLevelReturned /\ last.a.output_format = "plain"
    /\ Len(last.handed[1]) = 10
    /\ Len(format_sections(last.handed[1], "plain").value) > 2
    /\ \E i \in DOMAIN last.ret.value[2] :
          /\ i + 3 <= Len(last.ret.value[2])
          /\ SubSeq(last.ret.value[2], i, i + 3) = <<Word("RSI("), Word("1"), Word("4"), Word("):")>>

C29_MarkdownReached ==
    /\ DigitLevelReturned /\ last.a.output_format = "markdown_kv"
    /\ Len(last.handed[1]) = 10
    /\ Head(last.ret.value[2]) = Word("**overview**:")

(***************************************************************************)
(* C30: every failure of narrate on a valid frame is a NarrataError, that  *)
(* is a ValidationError or an UnsupportedFormatError, whatever the values  *)
(* of its options; no exception of another type escapes.                   *)
(***************************************************************************)
NarrataErrors == {"ValidationError", "UnsupportedFormatError"}

NarrateFailedOnValidFrame ==
    NarrateCalled /\ FramePassed /\ last.ret.kind = "raise"

C30_OnlyNarrataErrors ==
    NarrateFailedOnValidFrame => last.ret.exc \in NarrataErrors

\* the failures that do stay inside the hierarchy: a missing column or no
\* section, and an output format the serializer does not know
C30_NarrataErrorReached ==
    /\ NarrateFailedOnValidFrame
    /\ last.ret.exc = "UnsupportedFormatError"

\* a sparkline width below one escapes as ValueError from downsample_evenly
C30_SparklineWidthReached ==
    /\ NarrateFailedOnValidFrame
    /\ last.a.sparkline_width < 1
    /\ last.ret = Raise("ValueError", "width must be >= 1")

\* a valid frame of two rows escapes as ValueError from the frequency
\* inference of the summary
C30_TwoRowsReached ==
    /\ NarrateFailedOnValidFrame
    /\ Len(df.index) = 2
    /\ last.a.sparkline_width = DefaultArgs.sparkline_width
    /\ last.ret = Raise("ValueError", "Need at least 3 dates to infer frequency")
=============================================================================
